---- MODULE Spec2Model ----
(***************************************************************************)
(* Model of the trustgeek-os cooperative kernel: the tick source           *)
(* (src/src/timer.rs), the guarded task stacks (src/src/stack.rs) and the  *)
(* cooperative scheduler (src/src/scheduler.rs), and the driver cells      *)
(* (src/src/drivers/) through which tasks reach the peripherals.           *)
(*                                                                         *)
(* The mainline (spawn, run_ready, reap_finished) is one thread of         *)
(* control; the timer interrupt may fire between any two mainline steps.   *)
(* run_ready is therefore modelled one loop iteration at a time, with the  *)
(* interrupt free to fire between iterations.                              *)
(***************************************************************************)
EXTENDS Integers, Sequences, FiniteSets, TLC

VARIABLES
    system_ticks,   \* timer.rs SYSTEM_TICKS (AtomicU32)
    tasks,          \* Scheduler.tasks : heapless::Vec<TaskSlot, MAX_TASKS>
    next_id,        \* Scheduler.next_id
    pool,           \* task objects (&'static mut dyn Task) not yet handed to spawn
    pc,             \* mainline position: "idle" or "loop" (inside run_ready's for loop)
    now,            \* run_ready's local `now`
    idx,            \* run_ready's loop position (1-based index into tasks)
    polled,         \* history: names of the tasks polled in the current/last cycle, in order
    tripped,        \* history: names in the "Stack guard tripped" lines of that cycle
    cycles,         \* history: run_ready cycles started, counted where a scenario needs it
    isr_count,      \* history: number of timer interrupts handled since Init (not wrapped)
    now_count,      \* history: isr_count when run_ready read `now`
    last_poll,      \* history: per task object, what its last poll returned and when
    last_op,        \* history: the last mainline operation and its result
    cells,          \* drivers: LED_DRIVER, UART0_DRIVER, I2C0_DRIVER, OLED_DRIVER (Option<T>)
    ctx,            \* drivers: per execution context, its position in init_oled and its locals
    next_inst,      \* drivers: identity given to the next driver instance constructed
    drv_op,         \* history: the last driver operation, its caller and its result
    TIMER,          \* timer.rs TIMER (Option<HwTimer>)
    hw,             \* the timer peripheral and the interrupt controller
    isr_pc,         \* position of the running timer_isr_trampoline (0: not running)
    in_cs,          \* the interrupt handler is inside critical_section::with
    tmr_op,         \* history: the last timer operation and its result
    tstack,         \* a TaskStack under test (Option<TaskStack>)
    tstack_wr,      \* history: the out-of-bounds write made to it, if any
    heap,           \* the task stacks' heap blocks: live, released, released when not live
    new_op          \* history: the last TaskStack::new on a word-sized request, or the
                    \* last verify of the stack under test, and its outcome

sched_vars == <<system_ticks, tasks, next_id, pool, pc, now, idx, polled, tripped,
                cycles, isr_count, now_count, last_poll, last_op>>

drv_vars == <<cells, ctx, next_inst, drv_op>>

tmr_vars == <<TIMER, hw, isr_pc, in_cs, tmr_op>>

stk_vars == <<tstack, tstack_wr>>

vars == <<sched_vars, drv_vars, tmr_vars, stk_vars, heap, new_op>>

(***************************************************************************)
(* 32-bit unsigned values.  The model checker's integers are 32-bit signed, *)
(* so a u32 is kept as the pair <<hi, lo>> of its 16-bit halves and the    *)
(* arithmetic below is exact u32 arithmetic on that pair.                  *)
(***************************************************************************)
\* 2^16: the weight of the high half
HALF == 65536

\* the u32 with value n, for 0 <= n < 2^31
U(n) == << n \div HALF, n % HALF >>

U32_MAX == << HALF - 1, HALF - 1 >>

\* a < b on u32
Lt(a, b) == a[1] < b[1] \/ (a[1] = b[1] /\ a[2] < b[2])

\* Ord::max on u32
MaxU(a, b) == IF Lt(a, b) THEN b ELSE a

\* u32::wrapping_add
wrapping_add(a, b) ==
    LET lo == a[2] + b[2]
        hi == a[1] + b[1] + (lo \div HALF)
    IN  << hi % HALF, lo % HALF >>

\* u32::saturating_mul by a factor k < 2^15
saturating_mul(a, k) ==
    LET lo == a[2] * k
        hi == a[1] * k + (lo \div HALF)
    IN  IF hi >= HALF THEN U32_MAX ELSE << hi, lo % HALF >>

\* u32 division (rounding down) by a divisor d < 2^15
DivU(a, d) ==
    LET r == a[1] % d
    IN  << a[1] \div d, (r * HALF + a[2]) \div d >>

(***************************************************************************)
(* Program constants                                                       *)
(***************************************************************************)
\* (variant) a table with room for one more slot
MAX_TASKS_Nine == 8 + 1

\* scheduler.rs MAX_TASKS: the capacity of the slot table
MAX_TASKS == 8

TICK_FREQUENCY_HZ == 1000

\* 0xDEADBEEF
CANARY == << 57005, 48879 >>

CANARY_BYTES == 4

DEFAULT_STACK_SIZE == 4096

STACK_ALIGN == 16

\* heap.rs: 64 * 1024
HEAP_SIZE == 65536

\* TaskPriority discriminants
Low == 0

Normal == 1

High == 2

(***************************************************************************)
(* Bounds of the model                                                     *)
(***************************************************************************)
\* timer interrupts handled in one behaviour
MaxIsr == 2

\* largest SleepTicks argument a task returns
MaxSleepTicks == 1

\* spawn calls made in one behaviour
MaxSpawns == 2

\* task objects of the capacity runs beyond MAX_TASKS
CapExtra == 2

\* timer interrupts handled in one capacity run
CapMaxIsr == 1

\* timer interrupts handled in one run of the two-task scenario
ScenarioMaxIsr == 102

\* driver instances constructed in one driver run
MaxInst == 3

\* buses and displays constructed in one display run
MaxOledInst == 4

\* calls of the timer's init that reach the hardware in one timer run
MaxTimerStarts == 2

\* runs of the interrupt handler in one timer run
MaxTimerIsr == 3

\* single timer interrupts handled in one fair run
MaxLiveIsr == 1

\* consecutive verify calls told apart in one stack run
MaxVerifyCalls == 2

\* runs of the interrupt handler in one system run
MaxTickIsr == 1

\* driver instances constructed in one system run
MaxTickInst == 3

\* timer interrupts handled in one sleep run
MaxSleepIsr == 2

(***************************************************************************)
(* Inputs: task objects, the commands a poll may return, the out-of-bounds *)
(* byte writes a poll may perform, the tick values the counter may hold    *)
(* when the scheduler is first used.                                       *)
(***************************************************************************)
SleepTicksArgs == { U(n) : n \in 0..MaxSleepTicks }

\* 4294968 = 65 * 2^16 + 35128 is the least ms with ms * 1000 > u32::MAX
BigMs == << 65, 35128 >>

SleepMsArgs == { U(1), BigMs }

\* scheduler.rs TaskCommand
Continue == [kind |-> "Continue", arg |-> U(0)]

Finished == [kind |-> "Finished", arg |-> U(0)]

SleepTicks(n) == [kind |-> "SleepTicks", arg |-> n]

SleepMs(ms) == [kind |-> "SleepMs", arg |-> ms]

Commands ==
    { Continue, Finished }
    \cup { SleepTicks(n) : n \in SleepTicksArgs }
    \cup { SleepMs(m) : m \in SleepMsArgs }

\* A poll may write one byte out of bounds: into the first byte above a usable
\* stack region (offset 0 of an upper guard) or into the last byte below it
\* (offset 3 of a lower guard).  239 = 0xEF is the byte the upper guard already
\* holds at offset 0 (little-endian 0xDEADBEEF).
OobWrites ==
    { [guard |-> "upper", off |-> 0, byte |-> 0],
      [guard |-> "upper", off |-> 0, byte |-> 239],
      [guard |-> "lower", off |-> 3, byte |-> 0] }

\* A task object (an implementation of trait Task): `name` identifies the
\* object, priority and stack_size are what its methods answer, `returns` is
\* the set of commands its poll may return and `oob` tells whether its poll may
\* write out of bounds.

\* The task objects of the general runs: polls of any behaviour.
TaskObjects ==
    { [name |-> "A", priority |-> High,   stack_size |-> DEFAULT_STACK_SIZE,
       returns |-> Commands, oob |-> TRUE],
      [name |-> "B", priority |-> Normal, stack_size |-> DEFAULT_STACK_SIZE,
       returns |-> Commands, oob |-> TRUE],
      [name |-> "C", priority |-> Normal, stack_size |-> 64,
       returns |-> Commands, oob |-> TRUE] }

TaskNames == { t.name : t \in TaskObjects }

\* The task objects of the capacity runs, in the order the boot code spawns
\* them: more objects than the table has slots, of all three priorities; every
\* other one finishes at its first poll, the others always continue.
CapName ==
    << "T01", "T02", "T03", "T04", "T05", "T06", "T07", "T08", "T09", "T10", "T11", "T12" >>

CapObjects ==
    { [name |-> CapName[k], priority |-> k % 3, stack_size |-> DEFAULT_STACK_SIZE,
       returns |-> IF k % 2 = 1 THEN {Finished} ELSE {Continue}, oob |-> FALSE] :
        k \in 1..(MAX_TASKS + CapExtra) }

CapIndex(t) == CHOOSE k \in 1..Len(CapName) : CapName[k] = t.name

\* The two-task scenario: A (High) always continues, B (Normal) always sleeps 100 ms.
ScenarioObjects ==
    { [name |-> "A", priority |-> High, stack_size |-> DEFAULT_STACK_SIZE,
       returns |-> {Continue}, oob |-> FALSE],
      [name |-> "B", priority |-> Normal, stack_size |-> DEFAULT_STACK_SIZE,
       returns |-> {SleepMs(U(100))}, oob |-> FALSE] }

\* The task objects of the priority runs: A reports High and B Low when they
\* are spawned; A always continues, B continues or finishes.
PrioObjects ==
    { [name |-> "A", priority |-> High, stack_size |-> DEFAULT_STACK_SIZE,
       returns |-> {Continue}, oob |-> FALSE],
      [name |-> "B", priority |-> Low, stack_size |-> DEFAULT_STACK_SIZE,
       returns |-> {Continue, Finished}, oob |-> FALSE] }

\* The task objects of the sleep runs: two tasks of one priority whose polls
\* return any command, also SleepMs(0).
SleepObjects ==
    { [name |-> n, priority |-> Normal, stack_size |-> DEFAULT_STACK_SIZE,
       returns |-> Commands \cup { SleepMs(U(0)) }, oob |-> FALSE] : n \in { "A", "B" } }

\* The tick counter starts at 0 and the scheduler may first be used at any later
\* tick.  The general runs start one tick before the counter wraps, so that
\* they cover a scheduler used before the wrap, across it and after it.
StartTicks == { U32_MAX }

(***************************************************************************)
(* timer.rs                                                                *)
(***************************************************************************)
\* pub fn ms_to_ticks(ms: u32) -> u32 { ms.saturating_mul(TICK_FREQUENCY_HZ) / 1_000 }
ms_to_ticks(ms) == DivU(saturating_mul(ms, TICK_FREQUENCY_HZ), 1000)

(***************************************************************************)
(* stack.rs                                                                *)
(***************************************************************************)
allocation_size(stack_size) == stack_size + CANARY_BYTES * 2

\* TaskStack::new: the block is zeroed (fill is the byte the usable region
\* holds) and both guard words are written.
\* alloc_ok is the allocator's answer (alloc returns null when it is FALSE).
\* The result is an Option: <<>> for None, <<stack>> for Some(stack).
TaskStackNew(size, alloc_ok) ==
    IF alloc_ok
    THEN << [size |-> size, lower |-> CANARY, fill |-> 0, upper |-> CANARY] >>
    ELSE << >>

\* usize `+` on the 32-bit target: the sum modulo 2^32, and whether the
\* addition panics.  It panics when it overflows in a build with overflow
\* checks (`checks`); without them it wraps.
usize_add(a, b, checks) ==
    LET sum == wrapping_add(a, b)
    IN  [val |-> sum, panic |-> checks /\ Lt(sum, a)]

\* allocation_size on a stack_size of any machine-word value
allocation_size_word(stack_size, checks) ==
    usize_add(stack_size, U(CANARY_BYTES * 2), checks)

\* stack_layout: Layout::from_size_align(n, STACK_ALIGN).ok() is None when n
\* rounded up to the alignment exceeds isize::MAX = 2^31 - 1
stack_layout(n) ==
    IF Lt(<< HALF \div 2 - 1, HALF - STACK_ALIGN >>, n) THEN << >> ELSE << n >>

NoNewOp ==
    [op |-> "", size |-> U(0), res |-> "", block |-> U(0), upper_at |-> U(0),
     oob |-> FALSE, calls |-> 0]

\* TaskStack::new on a size of any machine-word value: what the call returns
\* ("Some", "None" or "panic"), the size of the block it obtained, the offset
\* in the block at which it wrote the upper sentinel, and whether one of its
\* writes (the zero fill, the two sentinels) went outside the block.  alloc_ok
\* is the allocator's answer for a block the heap could hold.
TaskStackNewWord(size, checks, alloc_ok) ==
    LET n     == allocation_size_word(size, checks)
        upper == usize_add(U(CANARY_BYTES), size, checks)
        done  == [NoNewOp EXCEPT !.op = "new", !.size = size]
    IN  IF n.panic
        THEN [done EXCEPT !.res = "panic"]
        ELSE IF stack_layout(n.val) = << >>
        THEN [done EXCEPT !.res = "None"]
        ELSE IF ~alloc_ok \/ Lt(U(HEAP_SIZE), n.val)
        THEN [done EXCEPT !.res = "None"]
        ELSE IF upper.panic
        THEN [done EXCEPT !.res = "panic", !.block = n.val]
        ELSE [done EXCEPT
                !.res = "Some", !.block = n.val, !.upper_at = upper.val,
                !.oob = \/ Lt(n.val, U(CANARY_BYTES))
                        \/ Lt(wrapping_add(upper.val, U(CANARY_BYTES)), upper.val)
                        \/ Lt(n.val, wrapping_add(upper.val, U(CANARY_BYTES)))]

\* (variant) a verify that reads the lower sentinel only
verify_LowerOnly(stack) == stack.lower = CANARY

\* TaskStack::verify
verify(stack) == stack.lower = CANARY /\ stack.upper = CANARY

\* a 16-bit half with its low (k = 0) or high (k = 1) byte replaced
WriteHalfByte(h, k, byte) ==
    IF k = 0 THEN (h \div 256) * 256 + byte ELSE byte * 256 + (h % 256)

\* a little-endian 32-bit word with the byte at offset off (0..3) replaced
WriteByte(word, off, byte) ==
    IF off < 2
    THEN << word[1], WriteHalfByte(word[2], off, byte) >>
    ELSE << WriteHalfByte(word[1], off - 2, byte), word[2] >>

\* one out-of-bounds byte write into a guard word of a stack
OobWrite(stack, wr) ==
    IF wr.guard = "upper"
    THEN [stack EXCEPT !.upper = WriteByte(stack.upper, wr.off, wr.byte)]
    ELSE [stack EXCEPT !.lower = WriteByte(stack.lower, wr.off, wr.byte)]

(***************************************************************************)
(* scheduler.rs                                                            *)
(***************************************************************************)
\* TaskSlot::new: Result<TaskSlot, SchedulerError> as an Option
\* (<<>> stands for Err(OutOfMemory)).
TaskSlotNew(id, task, now_, alloc_ok) ==
    LET stack == TaskStackNew(task.stack_size, alloc_ok)
    IN  IF stack = << >>
        THEN << >>
        ELSE << [id |-> id, task |-> task, priority |-> task.priority,
                 next_run_tick |-> now_, finished |-> FALSE, stack |-> stack[1]] >>

\* Ordering as -1 (Less), 0 (Equal), 1 (Greater)
CmpInt(x, y) == IF x < y THEN -1 ELSE IF x > y THEN 1 ELSE 0

CmpU(a, b) == IF Lt(a, b) THEN -1 ELSE IF Lt(b, a) THEN 1 ELSE 0

\* (variant) the comparator with the priorities compared the other way round
SortCompare_LowFirst(a, b) ==
    LET other == CmpInt(a.priority, b.priority)
    IN  IF other = 0 THEN CmpU(a.next_run_tick, b.next_run_tick) ELSE other

\* (variant) the comparator asking each task object for its priority
SortCompare_AsksTask(a, b) ==
    LET other == CmpInt(b.task.priority, a.task.priority)
    IN  IF other = 0 THEN CmpU(a.next_run_tick, b.next_run_tick) ELSE other

\* (variant) the comparator without its tie-break on next_run_tick
SortCompare_PriorityOnly(a, b) == CmpInt(b.priority, a.priority)

\* the comparator run_ready hands to sort_unstable_by
SortCompare(a, b) ==
    LET other == CmpInt(b.priority, a.priority)
    IN  IF other = 0 THEN CmpU(a.next_run_tick, b.next_run_tick) ELSE other

\* sort_unstable_by: every arrangement of the slots that is ordered by the
\* comparator; slots that compare Equal may come out in any order.  The
\* arrangements are sequences of indices into s.
RECURSIVE SortOrders(_, _)
SortOrders(s, I) ==
    IF I = {}
    THEN { << >> }
    ELSE UNION { { << m >> \o r : r \in SortOrders(s, I \ {m}) } :
                 m \in { i \in I : \A j \in I : SortCompare(s[i], s[j]) <= 0 } }

SortUnstable(s) ==
    { [k \in 1..Len(s) |-> s[o[k]]] : o \in SortOrders(s, 1..Len(s)) }

\* (variant) the sleep commands without their `.max(1)`
ApplyCommand_NoMax(slot, cmd, now_) ==
    CASE cmd.kind = "Continue"   -> [slot EXCEPT !.next_run_tick = now_]
      [] cmd.kind = "SleepTicks" ->
            [slot EXCEPT !.next_run_tick = wrapping_add(now_, cmd.arg)]
      [] cmd.kind = "SleepMs"    ->
            [slot EXCEPT !.next_run_tick = wrapping_add(now_, ms_to_ticks(cmd.arg))]
      [] cmd.kind = "Finished"   -> [slot EXCEPT !.finished = TRUE]

\* the new next_run_tick and finished flag of a slot polled at `now_`
ApplyCommand(slot, cmd, now_) ==
    CASE cmd.kind = "Continue"   -> [slot EXCEPT !.next_run_tick = now_]
      [] cmd.kind = "SleepTicks" ->
            [slot EXCEPT !.next_run_tick = wrapping_add(now_, MaxU(cmd.arg, U(1)))]
      [] cmd.kind = "SleepMs"    ->
            [slot EXCEPT !.next_run_tick =
                             wrapping_add(now_, MaxU(ms_to_ticks(cmd.arg), U(1)))]
      [] cmd.kind = "Finished"   -> [slot EXCEPT !.finished = TRUE]

\* (variant) a failed guard check that stops every task
MarkTripped_All(s, i) == [k \in 1..Len(s) |-> [s[k] EXCEPT !.finished = TRUE]]

\* slot.finished = true after a failed guard check on the slot at index i
MarkTripped(s, i) == [s EXCEPT ![i].finished = TRUE]

\* (variant) the loop body without its `if now < slot.next_run_tick { continue; }`
Skips_IgnoresWakeTick(slot, now_) ==
    \/ slot.finished
    \/ ~verify(slot.stack)

\* (variant) the loop body without its `if slot.finished { continue; }`
Skips_IgnoresFinished(slot, now_) ==
    \/ ~verify(slot.stack)
    \/ Lt(now_, slot.next_run_tick)

\* the three `continue`s at the head of the loop body: the slot is not polled
Skips(slot, now_) ==
    \/ slot.finished
    \/ ~verify(slot.stack)
    \/ Lt(now_, slot.next_run_tick)

\* (variant) the guard check made after the wake-tick test
TripsAtTurn_AfterWakeTest(slot, now_) ==
    ~slot.finished /\ ~Lt(now_, slot.next_run_tick) /\ ~verify(slot.stack)

\* the second `continue`: past `if slot.finished`, the guard check fails; it
\* comes before `if now < slot.next_run_tick`
TripsAtTurn(slot, now_) == ~slot.finished /\ ~verify(slot.stack)

\* (variant) a loop body that compacts the finished slots out of the table
VerifyAfterPoll_Reaps(s, i) == SelectSeq(s, LAMBDA slot : ~slot.finished)

\* (variant) no guard check after the poll
VerifyAfterPoll_Never(s, i) == s

\* the guard check that follows the poll
VerifyAfterPoll(s, i) == IF ~verify(s[i].stack) THEN MarkTripped(s, i) ELSE s

\* (variant) retain with the closure negated
Retain_Finished(s) == SelectSeq(s, LAMBDA slot : slot.finished)

\* retain(|slot| !slot.finished)
Retain(s) == SelectSeq(s, LAMBDA slot : ~slot.finished)

\* the slots retain removes from the table, which are dropped
Removed(s) == SelectSeq(s, LAMBDA slot : slot.finished)

\* What a poll may write out of bounds: nothing, or one byte into a guard word
\* of its own stack or of another slot's stack (n slots in the table).
PollWrites(n) ==
    { << >> } \cup
    { << [slot |-> j, wr |-> wr] >> : j \in 1..n, wr \in OobWrites }

\* the table after the memory write w of a poll
ApplyWrite(s, w) ==
    IF w = << >>
    THEN s
    ELSE [s EXCEPT ![w[1].slot].stack = OobWrite(@, w[1].wr)]

(***************************************************************************)
(* drivers/mod.rs: a driver cell is a Mutex<RefCell<Option<T>>>.  An       *)
(* Option is <<>> for None and <<v>> for Some(v).  A driver instance is a  *)
(* record: id tells instances apart, st is the state an operation run by   *)
(* try_with changes (the LED level), bus is the id of the I2C bus an OLED  *)
(* display owns (0 otherwise).                                             *)
(***************************************************************************)
\* the statics LED_DRIVER, UART0_DRIVER, I2C0_DRIVER, OLED_DRIVER
Cells == { "LED_DRIVER", "UART0_DRIVER", "I2C0_DRIVER", "OLED_DRIVER" }

\* the execution contexts that call into the drivers
Callers == { "main", "isr" }

\* Option::is_some
is_some(o) == o # << >>

\* a freshly constructed instance
Instance(id, bus) == [id |-> id, st |-> 0, bus |-> bus]

\* the unit value stored by init_uart
Unit == [id |-> 0, st |-> 0, bus |-> 0]

\* the operation LedTask::poll hands to try_with: it drives the pin to the
\* other level (set_high / set_low)
LedOp(inst) == [inst EXCEPT !.st = 1 - inst.st]

\* DriverHandle::is_ready
is_ready(o) == is_some(o)

\* (variant) try_with that leaves the cell empty after running the operation
try_with_Consumes(o) ==
    IF is_some(o)
    THEN [cell |-> << >>, ret |-> << LedOp(o[1]).st >>, ran |-> 1]
    ELSE [cell |-> << >>, ret |-> << >>, ran |-> 0]

\* DriverHandle::try_with: as_mut().map(f).  cell is the cell afterwards, ret
\* the Option returned, ran the number of times the operation was run.
try_with(o) ==
    IF is_some(o)
    THEN [cell |-> << LedOp(o[1]) >>, ret |-> << LedOp(o[1]).st >>, ran |-> 1]
    ELSE [cell |-> << >>, ret |-> << >>, ran |-> 0]

\* (variant) take that hands out the instance and leaves it in the cell
take_Copies(o) == [cell |-> o, ret |-> o]

\* DriverHandle::take: Option::take
take(o) == [cell |-> << >>, ret |-> o]

\* (variant) replace that keeps an occupant and hands the new value back
replace_KeepsOccupant(o, v) ==
    IF is_some(o) THEN [cell |-> o, ret |-> << v >>] ELSE [cell |-> << v >>, ret |-> o]

\* DriverHandle::replace: Option::replace
replace(o, v) == [cell |-> << v >>, ret |-> o]

\* an execution context outside init_oled, holding no taken value
IdleCtx == [pc |-> "idle", bus |-> << >>, display |-> << >>, entry |-> << >>,
            held |-> << >>]

\* seq alternates with every completed operation, so that two equal
\* operations in a row are still two records
NoDrvOp == [caller |-> "", op |-> "", cell |-> "", res |-> "", ret |-> << >>,
            ran |-> 0, seq |-> 0]

\* the statics as the program starts: every cell is None
DriversInit ==
    /\ cells = [c \in Cells |-> << >>]
    /\ ctx = [c \in Callers |-> IdleCtx]
    /\ next_inst = 1
    /\ drv_op = NoDrvOp

(***************************************************************************)
(* timer.rs: the stored timer handle, the timer peripheral and the         *)
(* interrupt controller.  hw counts the calls that configure the hardware. *)
(***************************************************************************)
NoHw == [starts |-> 0, listens |-> 0, binds |-> 0, enables |-> 0,
         enabled |-> FALSE, pending |-> FALSE, acks |-> 0]

NoTmrOp == [op |-> "", res |-> "", ticks |-> U(0), in_cs |-> FALSE, seq |-> 0]

\* the statics as the program starts: TIMER is None, nothing is configured
TimerInit ==
    /\ TIMER = << >>
    /\ hw = NoHw
    /\ isr_pc = 0
    /\ in_cs = FALSE
    /\ tmr_op = NoTmrOp

\* no stack under test
StackInit ==
    /\ tstack = << >>
    /\ tstack_wr = << >>

\* a step of the drivers leaves the scheduler, the timer and the stack under
\* test alone
DriversOnly == UNCHANGED <<sched_vars, tmr_vars, stk_vars, heap, new_op>>

\* a step of the scheduler leaves the drivers, the timer hardware and the
\* stack under test alone
SchedulerOnly == UNCHANGED <<drv_vars, tmr_vars, stk_vars, new_op>>

\* no stack has been allocated.  A block is named by the id of the slot that
\* owns the TaskStack.
NoHeap == [live |-> {}, freed |-> {}, stray |-> {}]

\* alloc(layout) for the stack of slot id, having succeeded
alloc(h, id) == [h EXCEPT !.live = @ \cup {id}]

\* (variant) a Drop that does not release the block
dealloc_Leaks(h, id) == h

\* Drop for TaskStack: dealloc(base, layout) of the stack of slot id; the
\* release of a block that is not live is recorded in stray
dealloc(h, id) ==
    [live  |-> h.live \ {id},
     freed |-> h.freed \cup {id},
     stray |-> IF id \in h.live THEN h.stray ELSE h.stray \cup {id}]

\* the slots of the sequence s are dropped, each dropping its stack
RECURSIVE DropSlots(_, _)
DropSlots(h, s) ==
    IF s = << >> THEN h ELSE DropSlots(dealloc(h, Head(s).id), Tail(s))

NoPoll == [kind |-> "None", arg |-> U(0), conv |-> U(0), at |-> 0, ticks |-> U(0)]

NoOp == [op |-> "new", task |-> "", res |-> "", id |-> U(0), alloc_ok |-> TRUE]

\* Scheduler::new, with the tick counter at a value of `ticks` and the
\* application owning the task objects `objs`
InitWith(objs, ticks) ==
    /\ system_ticks \in ticks
    /\ tasks = << >>
    /\ next_id = U(1)
    /\ pool = objs
    /\ pc = "idle"
    /\ now = U(0)
    /\ idx = 0
    /\ polled = << >>
    /\ tripped = {}
    /\ cycles = 0
    /\ isr_count = 0
    /\ now_count = 0
    /\ last_poll = [n \in { t.name : t \in objs } |-> NoPoll]
    /\ last_op = NoOp
    /\ DriversInit
    /\ TimerInit
    /\ StackInit
    /\ heap = NoHeap
    /\ new_op = NoNewOp

Init == InitWith(TaskObjects, StartTicks)

\* timer_isr_trampoline: SYSTEM_TICKS.fetch_add(1)
Isr(max) ==
    /\ SchedulerOnly
    /\ isr_count < max
    /\ system_ticks' = wrapping_add(system_ticks, U(1))
    /\ isr_count' = isr_count + 1
    /\ UNCHANGED <<tasks, next_id, pool, pc, now, idx, polled, tripped, cycles,
                   now_count, last_poll, last_op, heap>>

\* (variant) a capacity check that is off by one
is_full_OneEarly(s) == Len(s) = MAX_TASKS - 1

\* (variant) a capacity check that counts the non-finished slots only
is_full_Unfinished(s) ==
    Cardinality({ i \in 1..Len(s) : ~s[i].finished }) = MAX_TASKS

\* heapless::Vec::is_full
is_full(s) == Len(s) = MAX_TASKS

\* heapless::Vec::push as an Option: <<>> when the vector is full
push(s, slot) == IF Len(s) < MAX_TASKS THEN << Append(s, slot) >> ELSE << >>

SpawnResult(task, res, id, alloc_ok) ==
    [NoOp EXCEPT !.op = "spawn", !.task = task.name, !.res = res, !.id = id,
                 !.alloc_ok = alloc_ok]

\* Scheduler::spawn.  The reference to the task object is moved into the call,
\* so the object leaves the pool whatever the result.
Spawn(task, alloc_ok) ==
    /\ SchedulerOnly
    /\ pc = "idle"
    /\ task \in pool
    /\ pool' = pool \ {task}
    /\ IF is_full(tasks)
       THEN /\ UNCHANGED <<tasks, next_id, heap>>
            /\ last_op' = SpawnResult(task, "NoCapacity", U(0), alloc_ok)
       ELSE LET id     == next_id
                slot   == TaskSlotNew(id, task, system_ticks, alloc_ok)
                pushed == push(tasks, slot[1])
            IN  /\ next_id' = wrapping_add(next_id, U(1))
                /\ IF slot = << >>
                   THEN /\ UNCHANGED <<tasks, heap>>
                        /\ last_op' = SpawnResult(task, "OutOfMemory", U(0), alloc_ok)
                   ELSE IF pushed = << >>
                   THEN /\ UNCHANGED tasks
                        /\ heap' = DropSlots(alloc(heap, id), slot)
                        /\ last_op' = SpawnResult(task, "NoCapacity", U(0), alloc_ok)
                   ELSE /\ tasks' = pushed[1]
                        /\ heap' = alloc(heap, id)
                        /\ last_op' = SpawnResult(task, "Ok", id, alloc_ok)
    /\ UNCHANGED <<system_ticks, pc, now, idx, polled, tripped, cycles, isr_count,
                   now_count, last_poll>>

\* Scheduler::run_ready up to the for loop: read the tick counter, sort the table.
\* The cycle is counted up to `cap`.
RunReadyBegin(cap) ==
    /\ SchedulerOnly
    /\ pc = "idle"
    /\ cycles' = IF cycles < cap THEN cycles + 1 ELSE cycles
    /\ now' = system_ticks
    /\ now_count' = isr_count
    /\ tasks' \in SortUnstable(tasks)
    /\ polled' = << >>
    /\ tripped' = {}
    /\ IF Len(tasks) = 0
       THEN pc' = "idle" /\ idx' = 0
       ELSE pc' = "loop" /\ idx' = 1
    /\ last_op' = [NoOp EXCEPT !.op = "run_ready"]
    /\ UNCHANGED <<system_ticks, next_id, pool, isr_count, last_poll, heap>>

\* where the mainline is after the loop body has run for the slot at idx
LoopAdvance ==
    IF idx = Len(tasks)
    THEN pc' = "idle" /\ idx' = 0
    ELSE pc' = "loop" /\ idx' = idx + 1

\* (variant) the tick counter read anew in every loop iteration
LoopTicks_Reread == system_ticks

\* the value the loop body uses for the current tick: the local `now`
LoopTicks == now

\* one iteration of run_ready's for loop that does not poll: the slot is
\* finished, or its guard is found corrupted (it is marked finished and the
\* fault is printed), or it is not due yet
RunReadySkip ==
    /\ SchedulerOnly
    /\ pc = "loop"
    /\ Skips(tasks[idx], LoopTicks)
    /\ IF TripsAtTurn(tasks[idx], LoopTicks)
       THEN /\ tasks' = MarkTripped(tasks, idx)
            /\ tripped' = tripped \cup {tasks[idx].task.name}
       ELSE UNCHANGED <<tasks, tripped>>
    /\ LoopAdvance
    /\ UNCHANGED <<system_ticks, next_id, pool, now, polled, cycles, isr_count,
                   now_count, last_poll, last_op, heap>>

\* one iteration of run_ready's for loop that polls the slot: the task returns
\* cmd and may have written w out of bounds while it ran
RunReadyPoll(cmd, w) ==
    /\ SchedulerOnly
    /\ pc = "loop"
    /\ ~Skips(tasks[idx], LoopTicks)
    /\ cmd \in tasks[idx].task.returns
    /\ w # << >> => tasks[idx].task.oob
    /\ LET name    == tasks[idx].task.name
           written == ApplyWrite(tasks, w)
           applied == [written EXCEPT ![idx] = ApplyCommand(@, cmd, LoopTicks)]
       IN  /\ tasks' = VerifyAfterPoll(applied, idx)
           /\ tripped' = IF verify(applied[idx].stack) THEN tripped
                         ELSE tripped \cup {name}
           /\ polled' = Append(polled, name)
           /\ last_poll' = [last_poll EXCEPT ![name] =
                  [kind |-> cmd.kind, arg |-> cmd.arg,
                   conv |-> IF cmd.kind = "SleepMs" THEN ms_to_ticks(cmd.arg) ELSE U(0),
                   at |-> now_count, ticks |-> LoopTicks]]
    /\ LoopAdvance
    /\ UNCHANGED <<system_ticks, next_id, pool, now, cycles, isr_count, now_count,
                   last_op, heap>>

\* Scheduler::reap_finished
ReapFinished ==
    /\ SchedulerOnly
    /\ pc = "idle"
    /\ tasks' = Retain(tasks)
    /\ heap' = DropSlots(heap, Removed(tasks))
    /\ last_op' = [NoOp EXCEPT !.op = "reap"]
    /\ UNCHANGED <<system_ticks, next_id, pool, pc, now, idx, polled, tripped,
                   cycles, isr_count, now_count, last_poll>>

\* the Scheduler value is dropped: its table drops every slot it holds
SchedulerDrop ==
    /\ SchedulerOnly
    /\ pc = "idle"
    /\ tasks' = << >>
    /\ heap' = DropSlots(heap, tasks)
    /\ pc' = "dropped"
    /\ last_op' = [NoOp EXCEPT !.op = "drop"]
    /\ UNCHANGED <<system_ticks, next_id, pool, now, idx, polled, tripped,
                   cycles, isr_count, now_count, last_poll>>

\* the commands the task at the loop position may return
PollReturns == IF pc = "loop" THEN tasks[idx].task.returns ELSE {}

(***************************************************************************)
(* General runs: up to MaxSpawns of the task objects are spawned at any     *)
(* time, also with the allocation failing; their polls return any command   *)
(* and may write out of bounds; the tick counter wraps.                     *)
(***************************************************************************)
Next ==
    \/ Isr(MaxIsr)
    \/ \E task \in pool, alloc_ok \in BOOLEAN :
          /\ Cardinality(TaskObjects) - Cardinality(pool) < MaxSpawns
          /\ Spawn(task, alloc_ok)
    \/ RunReadyBegin(0)
    \/ RunReadySkip
    \/ \E cmd \in PollReturns, w \in PollWrites(Len(tasks)) : RunReadyPoll(cmd, w)
    \/ ReapFinished

Spec == Init /\ [][Next]_vars

(***************************************************************************)
(* Capacity runs: the task objects of CapObjects are spawned in their       *)
(* order, the allocation succeeding, from tick 0.  The boot code spawns the *)
(* first MAX_TASKS of them; from then on run_ready, reap_finished and the   *)
(* remaining spawns are called in any order.                                *)
(***************************************************************************)
InitCap == InitWith(CapObjects, { U(0) })

\* the next task object the boot code spawns
CapNext == { t \in pool : \A u \in pool : CapIndex(t) <= CapIndex(u) }

\* the boot code has made its MAX_TASKS spawn calls
CapBooted == Cardinality(pool) <= CapExtra

NextCap ==
    \/ Isr(CapMaxIsr)
    \/ \E task \in CapNext : Spawn(task, TRUE)
    \/ CapBooted /\ RunReadyBegin(0)
    \/ RunReadySkip
    \/ \E cmd \in PollReturns : RunReadyPoll(cmd, << >>)
    \/ CapBooted /\ ReapFinished
    \/ CapBooted /\ SchedulerDrop

SpecCap == InitCap /\ [][NextCap]_vars

(***************************************************************************)
(* Sleep runs: the two task objects of SleepObjects are spawned at any      *)
(* time, the allocation succeeding; their polls return any command; the     *)
(* counter starts at 0 or one tick before its wrap.                         *)
(***************************************************************************)
InitSleep == InitWith(SleepObjects, { U(0), U32_MAX })

NextSleep ==
    \/ Isr(MaxSleepIsr)
    \/ \E task \in pool : Spawn(task, TRUE)
    \/ RunReadyBegin(0)
    \/ RunReadySkip
    \/ \E cmd \in PollReturns : RunReadyPoll(cmd, << >>)
    \/ ReapFinished

SpecSleep == InitSleep /\ [][NextSleep]_vars

(***************************************************************************)
(* Priority runs: the two task objects of PrioObjects are spawned at any    *)
(* time from tick 0, the allocation succeeding, and run_ready is called any *)
(* number of times.  A task object in the table may change what its         *)
(* priority() answers at any time (poll takes &mut self, and priority() is  *)
(* the object's own code).                                                  *)
(***************************************************************************)
\* Task::priority(&self) of the task object in slot i answers p from now on
PriorityChange(i, p) ==
    /\ SchedulerOnly
    /\ i \in 1..Len(tasks)
    /\ tasks[i].task.priority # p
    /\ tasks' = [tasks EXCEPT ![i].task.priority = p]
    /\ UNCHANGED <<system_ticks, next_id, pool, pc, now, idx, polled, tripped, cycles,
                   isr_count, now_count, last_poll, last_op, heap>>

InitPrio == InitWith(PrioObjects, { U(0) })

NextPrio ==
    \/ \E task \in pool : Spawn(task, TRUE)
    \/ \E i \in 1..Len(tasks), p \in { Low, Normal, High } : PriorityChange(i, p)
    \/ RunReadyBegin(0)
    \/ RunReadySkip
    \/ \E cmd \in PollReturns : RunReadyPoll(cmd, << >>)

SpecPrio == InitPrio /\ [][NextPrio]_vars

(***************************************************************************)
(* Fair runs: the sleep runs from one tick before the wrap, with the timer  *)
(* interrupt firing for ever and the main loop calling run_ready for ever.  *)
(* The counter has 2^32 values, so the interrupts that take it round are    *)
(* taken half a round at a time: one IsrTimes step stands for 2^31          *)
(* consecutive runs of the handler.  isr_count counts the single            *)
(* interrupts only.                                                         *)
(***************************************************************************)
\* 2^31 ticks, half a round of the counter
HalfRound == << HALF \div 2, 0 >>

\* timer_isr_trampoline run n times in a row: n times SYSTEM_TICKS.fetch_add(1)
IsrTimes(n) ==
    /\ SchedulerOnly
    /\ system_ticks' = wrapping_add(system_ticks, n)
    /\ UNCHANGED <<tasks, next_id, pool, pc, now, idx, polled, tripped, cycles,
                   isr_count, now_count, last_poll, last_op, heap>>

InitLive == InitWith(SleepObjects, { U32_MAX })

NextLive ==
    \/ Isr(MaxLiveIsr)
    \/ IsrTimes(HalfRound)
    \/ \E task \in pool : Spawn(task, TRUE)
    \/ RunReadyBegin(0)
    \/ RunReadySkip
    \/ \E cmd \in PollReturns : RunReadyPoll(cmd, << >>)
    \/ ReapFinished

\* the values the counter takes in a fair run
LiveTicks ==
    { wrapping_add(wrapping_add(U32_MAX, U(a)), b) :
        a \in 0..MaxLiveIsr, b \in { U(0), HalfRound } }

\* The timer keeps interrupting (timer.rs:45-59: a periodic timer, its
\* interrupt enabled) and the main loop keeps calling run_ready, at every
\* value of the counter that keeps coming back; the loop of run_ready runs to
\* its end.
SpecLive ==
    /\ InitLive
    /\ [][NextLive]_vars
    /\ WF_vars(IsrTimes(HalfRound))
    /\ \A t \in LiveTicks : SF_vars(RunReadyBegin(0) /\ system_ticks = t)
    /\ WF_vars(RunReadySkip)
    /\ WF_vars(\E cmd \in PollReturns : RunReadyPoll(cmd, << >>))

(***************************************************************************)
(* The two-task scenario: A and B are spawned at tick 0; run_ready is       *)
(* called at tick 0, again at tick 50 and a third time at any tick from 100 *)
(* on.  The timer interrupt fires at any point, also inside a cycle.        *)
(***************************************************************************)
InitScenario == InitWith(ScenarioObjects, { U(0) })

\* the scenario's next run_ready call is due
ScenarioCycleDue ==
    /\ pool = {}
    /\ CASE cycles = 0 -> isr_count = 0
         [] cycles = 1 -> isr_count = 50
         [] cycles = 2 -> isr_count >= 100
         [] OTHER      -> FALSE

NextScenario ==
    \/ Isr(ScenarioMaxIsr)
    \/ \E task \in pool : isr_count = 0 /\ Spawn(task, TRUE)
    \/ ScenarioCycleDue /\ RunReadyBegin(3)
    \/ RunReadySkip
    \/ \E cmd \in PollReturns : RunReadyPoll(cmd, << >>)

SpecScenario == InitScenario /\ [][NextScenario]_vars

(***************************************************************************)
(* drivers/: the operations on the driver cells.  Each critical section    *)
(* (critical_section::with) is one step; init_oled, which passes through   *)
(* several critical sections, is several steps.  The drivers are called    *)
(* from the mainline and from interrupt context: code in interrupt context *)
(* runs to completion before the mainline goes on, and it can start        *)
(* between any two critical sections of the mainline.                      *)
(***************************************************************************)
\* the context c is the one executing
Runnable(c) == c = "isr" \/ ctx["isr"].pc = "idle"

\* the context c can make a call
AtCall(c) == Runnable(c) /\ ctx[c].pc = "idle"

\* what a caller holds after a take or replace returned `ret` for `cell`
Held(cell, ret) ==
    IF is_some(ret) THEN << [cell |-> cell, inst |-> ret[1]] >> ELSE << >>

\* the record of a completed driver operation
DrvResult(c, op, cell, res, ret, ran) ==
    [caller |-> c, op |-> op, cell |-> cell, res |-> res, ret |-> ret, ran |-> ran,
     seq |-> 1 - drv_op.seq]

\* DriverHandle::is_ready on the handle of `cell`
IsReady(c, cell) ==
    /\ DriversOnly
    /\ AtCall(c)
    /\ drv_op' = DrvResult(c, "is_ready", cell,
                           IF is_ready(cells[cell]) THEN "true" ELSE "false",
                           << >>, 0)
    /\ UNCHANGED <<cells, ctx, next_inst>>

\* DriverHandle::try_with on the handle of `cell`
TryWith(c, cell) ==
    /\ DriversOnly
    /\ AtCall(c)
    /\ LET r == try_with(cells[cell])
       IN  /\ cells' = [cells EXCEPT ![cell] = r.cell]
           /\ drv_op' = DrvResult(c, "try_with", cell,
                                  IF is_some(r.ret) THEN "Some" ELSE "None",
                                  r.ret, r.ran)
    /\ UNCHANGED <<ctx, next_inst>>

\* DriverHandle::take on the handle of `cell`; the caller keeps what it gets
Take(c, cell) ==
    /\ DriversOnly
    /\ AtCall(c)
    /\ ctx[c].held = << >>
    /\ LET r == take(cells[cell])
       IN  /\ cells' = [cells EXCEPT ![cell] = r.cell]
           /\ ctx' = [ctx EXCEPT ![c].held = Held(cell, r.ret)]
           /\ drv_op' = DrvResult(c, "take", cell,
                                  IF is_some(r.ret) THEN "Some" ELSE "None",
                                  r.ret, 0)
    /\ UNCHANGED next_inst

\* DriverHandle::replace on the handle of `cell`, with the value the caller
\* holds; the caller keeps the previous occupant it gets back
Replace(c, cell) ==
    /\ DriversOnly
    /\ AtCall(c)
    /\ is_some(ctx[c].held)
    /\ ctx[c].held[1].cell = cell
    /\ LET v == ctx[c].held[1].inst
           r == replace(cells[cell], v)
       IN  /\ cells' = [cells EXCEPT ![cell] = r.cell]
           /\ ctx' = [ctx EXCEPT ![c].held = Held(cell, r.ret)]
           /\ drv_op' = DrvResult(c, "replace", cell,
                                  IF is_some(r.ret) THEN "Some" ELSE "None",
                                  r.ret, 0)
    /\ UNCHANGED next_inst

\* the body shared by init_led, init_uart and init_i2c0: one critical section
\* that checks the cell and installs the instance.  new_ok is whether the
\* construction of the instance succeeds, fresh whether it gets an identity.
InitCell(c, op, cell, new_ok, fresh, max) ==
    /\ DriversOnly
    /\ AtCall(c)
    /\ IF is_some(cells[cell])
       THEN /\ drv_op' = DrvResult(c, op, cell, "AlreadyInitialized", << >>, 0)
            /\ UNCHANGED <<cells, next_inst>>
       ELSE IF ~new_ok
       THEN /\ drv_op' = DrvResult(c, op, cell, "InitFailed", << >>, 0)
            /\ UNCHANGED <<cells, next_inst>>
       ELSE /\ fresh => next_inst <= max
            /\ cells' = [cells EXCEPT ![cell] =
                            << IF fresh THEN Instance(next_inst, 0) ELSE Unit >>]
            /\ next_inst' = IF fresh THEN next_inst + 1 ELSE next_inst
            /\ drv_op' = DrvResult(c, op, cell, "Ok", << >>, 0)
    /\ UNCHANGED ctx

\* drivers/gpio.rs init_led
InitLed(c, max) == InitCell(c, "init_led", "LED_DRIVER", TRUE, TRUE, max)

\* drivers/uart.rs init_uart
InitUart(c) == InitCell(c, "init_uart", "UART0_DRIVER", TRUE, FALSE, 0)

\* drivers/i2c.rs init_i2c0; new_ok is whether I2c::new succeeds
InitI2c0(c, new_ok, max) == InitCell(c, "init_i2c0", "I2C0_DRIVER", new_ok, TRUE, max)

\* drivers/oled.rs init_oled, line 15: i2c.take().ok_or(NotReady)?
OledTake(c) ==
    /\ DriversOnly
    /\ AtCall(c)
    /\ LET r == take(cells["I2C0_DRIVER"])
       IN  /\ cells' = [cells EXCEPT !["I2C0_DRIVER"] = r.cell]
           /\ IF is_some(r.ret)
              THEN /\ ctx' = [ctx EXCEPT ![c].pc = "check", ![c].bus = r.ret,
                                         ![c].entry = << cells["I2C0_DRIVER"] >>]
                   /\ UNCHANGED drv_op
              ELSE /\ drv_op' = DrvResult(c, "init_oled", "OLED_DRIVER", "NotReady",
                                          << >>, 0)
                   /\ UNCHANGED ctx
    /\ UNCHANGED next_inst

\* init_oled, line 17: the occupied check, in a critical section of its own
OledCheck(c) ==
    /\ DriversOnly
    /\ Runnable(c)
    /\ ctx[c].pc = "check"
    /\ ctx' = [ctx EXCEPT ![c].pc = IF is_some(cells["OLED_DRIVER"])
                                    THEN "restore" ELSE "construct"]
    /\ UNCHANGED <<cells, next_inst, drv_op>>

\* init_oled, lines 18-19: the bus goes back and the call fails
OledRestore(c) ==
    /\ DriversOnly
    /\ Runnable(c)
    /\ ctx[c].pc = "restore"
    /\ LET r == replace(cells["I2C0_DRIVER"], ctx[c].bus[1])
       IN  cells' = [cells EXCEPT !["I2C0_DRIVER"] = r.cell]
    /\ drv_op' = DrvResult(c, "init_oled", "OLED_DRIVER", "AlreadyInitialized",
                           << >>, 0)
    /\ ctx' = [ctx EXCEPT ![c].pc = "idle", ![c].bus = << >>, ![c].entry = << >>]
    /\ UNCHANGED next_inst

\* init_oled, lines 22-28: OledDisplay::new(bus) consumes the bus; new_ok is
\* whether the panel answers.  On failure the call returns InitFailed.
OledConstruct(c, new_ok, max) ==
    /\ DriversOnly
    /\ Runnable(c)
    /\ ctx[c].pc = "construct"
    /\ IF new_ok
       THEN /\ next_inst <= max
            /\ ctx' = [ctx EXCEPT ![c].pc = "install", ![c].bus = << >>,
                          ![c].display = << Instance(next_inst, ctx[c].bus[1].id) >>]
            /\ next_inst' = next_inst + 1
            /\ UNCHANGED drv_op
       ELSE /\ drv_op' = DrvResult(c, "init_oled", "OLED_DRIVER", "InitFailed",
                                   << >>, 0)
            /\ ctx' = [ctx EXCEPT ![c].pc = "idle", ![c].bus = << >>,
                                  ![c].entry = << >>]
            /\ UNCHANGED next_inst
    /\ UNCHANGED cells

\* init_oled, lines 30-35: the install, in a critical section of its own
OledInstall(c) ==
    /\ DriversOnly
    /\ Runnable(c)
    /\ ctx[c].pc = "install"
    /\ cells' = [cells EXCEPT !["OLED_DRIVER"] = ctx[c].display]
    /\ drv_op' = DrvResult(c, "init_oled", "OLED_DRIVER", "Ok", << >>, 0)
    /\ ctx' = [ctx EXCEPT ![c].pc = "idle", ![c].display = << >>, ![c].entry = << >>]
    /\ UNCHANGED next_inst

(***************************************************************************)
(* Driver runs: the mainline and interrupt context call the init functions *)
(* and the handle operations in any order; constructions may fail; at most *)
(* MaxInst instances are constructed.                                      *)
(***************************************************************************)
InitDrv == InitWith({}, { U(0) })

\* the cells of the drivers that own their peripheral outright
PlainCells == { "LED_DRIVER", "UART0_DRIVER" }

NextDrv ==
    \E c \in Callers :
        \/ InitLed(c, MaxInst)
        \/ InitUart(c)
        \/ \E cell \in PlainCells : IsReady(c, cell)
        \/ \E cell \in PlainCells : TryWith(c, cell)
        \/ \E cell \in PlainCells : Take(c, cell)
        \/ \E cell \in PlainCells : Replace(c, cell)

SpecDrv == InitDrv /\ [][NextDrv]_vars

(***************************************************************************)
(* Display runs: the I2C bus and the OLED display that consumes it.  The   *)
(* mainline and interrupt context call init_i2c0, init_oled and the handle *)
(* operations of the two cells in any order; constructions may fail; at    *)
(* most MaxOledInst buses and displays are constructed.                    *)
(***************************************************************************)
\* the cells of the layered drivers
LayeredCells == { "I2C0_DRIVER", "OLED_DRIVER" }

NextOled ==
    \E c \in Callers :
        \/ \E new_ok \in BOOLEAN : InitI2c0(c, new_ok, MaxOledInst)
        \/ OledTake(c)
        \/ OledCheck(c)
        \/ OledRestore(c)
        \/ \E new_ok \in BOOLEAN : OledConstruct(c, new_ok, MaxOledInst)
        \/ OledInstall(c)
        \/ \E cell \in LayeredCells : IsReady(c, cell)
        \/ \E cell \in LayeredCells : TryWith(c, cell)
        \/ \E cell \in LayeredCells : Take(c, cell)
        \/ \E cell \in LayeredCells : Replace(c, cell)

SpecOled == InitDrv /\ [][NextOled]_vars

(***************************************************************************)
(* timer.rs: init and the interrupt handler.  init runs wholly inside one  *)
(* critical section, so it is one step.  The handler is a sequence of      *)
(* steps; once entered it runs to completion before the mainline goes on.  *)
(***************************************************************************)
\* everything a timer step leaves alone (the tick counter is the timer's)
tmr_frame == <<tasks, next_id, pool, pc, now, idx, polled, tripped, cycles,
               now_count, last_poll, last_op, drv_vars, stk_vars, heap, new_op>>

\* the record of a timer operation
TmrResult(op, res, ticks, cs) ==
    [op |-> op, res |-> res, ticks |-> ticks, in_cs |-> cs, seq |-> 1 - tmr_op.seq]

\* the auto-reload period in microseconds (line 45)
Period == 1000000 \div TICK_FREQUENCY_HZ

\* (variant) init without the already-initialized check
timer_init_NoCheck(T, h, start_ok, enable_ok) ==
    IF ~start_ok
    THEN [TIMER |-> T, hw |-> [h EXCEPT !.starts = @ + 1], res |-> "StartFailed"]
    ELSE [TIMER |-> << [period_us |-> Period] >>,
          hw |-> [h EXCEPT !.starts = @ + 1, !.listens = @ + 1, !.binds = @ + 1,
                           !.enables = @ + 1, !.enabled = enable_ok],
          res |-> IF enable_ok THEN "Ok" ELSE "EnableFailed"]

\* (variant) init that arms the interrupt and returns without storing the handle
timer_init_NoStore(T, h, start_ok, enable_ok) ==
    IF is_some(T)
    THEN [TIMER |-> T, hw |-> h, res |-> "AlreadyInitialized"]
    ELSE IF ~start_ok
    THEN [TIMER |-> T, hw |-> [h EXCEPT !.starts = @ + 1], res |-> "StartFailed"]
    ELSE [TIMER |-> T,
          hw |-> [h EXCEPT !.starts = @ + 1, !.listens = @ + 1, !.binds = @ + 1,
                           !.enables = @ + 1, !.enabled = enable_ok],
          res |-> IF enable_ok THEN "Ok" ELSE "EnableFailed"]

\* timer.rs init, as a function of the stored handle T and the hardware h.
\* start_ok and enable_ok are the answers of timer0.start and
\* interrupt::enable.  The result holds the new handle, hardware and Result.
timer_init(T, h, start_ok, enable_ok) ==
    IF is_some(T)
    THEN [TIMER |-> T, hw |-> h, res |-> "AlreadyInitialized"]
    ELSE IF ~start_ok
    THEN [TIMER |-> T, hw |-> [h EXCEPT !.starts = @ + 1], res |-> "StartFailed"]
    ELSE IF ~enable_ok
    THEN [TIMER |-> T,
          hw |-> [h EXCEPT !.starts = @ + 1, !.listens = @ + 1, !.binds = @ + 1,
                           !.enables = @ + 1],
          res |-> "EnableFailed"]
    ELSE [TIMER |-> << [period_us |-> Period] >>,
          hw |-> [h EXCEPT !.starts = @ + 1, !.listens = @ + 1, !.binds = @ + 1,
                           !.enables = @ + 1, !.enabled = TRUE],
          res |-> "Ok"]

\* a call of init from the mainline; at most `max` calls reach the hardware
TimerInitCall(start_ok, enable_ok, max) ==
    /\ isr_pc = 0
    /\ is_some(TIMER) \/ hw.starts < max
    /\ LET r == timer_init(TIMER, hw, start_ok, enable_ok)
       IN  /\ TIMER' = r.TIMER
           /\ hw' = r.hw
           /\ tmr_op' = TmrResult("init", r.res, system_ticks, FALSE)
    /\ UNCHANGED <<system_ticks, isr_count, isr_pc, in_cs, tmr_frame>>

\* get_ticks: a relaxed load of the counter
get_ticks(t) == t

\* a call of get_ticks from the mainline
GetTicks ==
    /\ isr_pc = 0
    /\ tmr_op' = TmrResult("get_ticks", "", get_ticks(system_ticks), FALSE)
    /\ UNCHANGED <<system_ticks, isr_count, TIMER, hw, isr_pc, in_cs, tmr_frame>>

\* a call of ms_to_ticks from the mainline
MsToTicks(ms) ==
    /\ isr_pc = 0
    /\ tmr_op' = TmrResult("ms_to_ticks", "", ms_to_ticks(ms), FALSE)
    /\ UNCHANGED <<system_ticks, isr_count, TIMER, hw, isr_pc, in_cs, tmr_frame>>

\* (variant) a handler that acknowledges before it counts
IsrOrder_AckFirst == << "cs_enter", "ack", "cs_exit", "inc" >>

\* timer_isr_trampoline in program order: the fetch_add, then the critical
\* section with the acknowledgment in it
IsrOrder == << "inc", "cs_enter", "ack", "cs_exit" >>

\* (variant) a counter that stops at its largest value
fetch_add_Saturating(t, n) == IF t = U32_MAX THEN t ELSE wrapping_add(t, n)

\* AtomicU32::fetch_add: the new value of the counter
fetch_add(t, n) == wrapping_add(t, n)

\* the handler is entered: by the timer interrupt (via = "irq", possible once
\* init has enabled it) or by force_tick (via = "force_tick")
TimerIsrEnter(via, max) ==
    /\ isr_pc = 0
    /\ isr_count < max
    /\ via = "irq" => hw.enabled
    /\ isr_pc' = 1
    /\ hw' = IF via = "irq" THEN [hw EXCEPT !.pending = TRUE] ELSE hw
    /\ tmr_op' = TmrResult("isr", via, system_ticks, in_cs)
    /\ UNCHANGED <<system_ticks, isr_count, TIMER, in_cs, tmr_frame>>

\* the next step of the running handler
TimerIsrStep ==
    /\ isr_pc # 0
    /\ LET step == IsrOrder[isr_pc]
       IN  /\ IF step = "inc"
              THEN /\ system_ticks' = fetch_add(system_ticks, U(1))
                   /\ isr_count' = isr_count + 1
              ELSE UNCHANGED <<system_ticks, isr_count>>
           /\ in_cs' = CASE step = "cs_enter" -> TRUE
                         [] step = "cs_exit"  -> FALSE
                         [] OTHER             -> in_cs
           /\ hw' = IF step = "ack" /\ is_some(TIMER)
                    THEN [hw EXCEPT !.pending = FALSE, !.acks = @ + 1]
                    ELSE hw
           /\ tmr_op' = [tmr_op EXCEPT !.op = step, !.in_cs = in_cs]
    /\ isr_pc' = IF isr_pc = Len(IsrOrder) THEN 0 ELSE isr_pc + 1
    /\ UNCHANGED <<TIMER, tmr_frame>>

(***************************************************************************)
(* Timer runs: init is called any number of times, at most MaxTimerStarts  *)
(* of the calls reaching the hardware, with start or enable failing or     *)
(* not; the interrupt fires once enabled and force_tick is called;         *)
(* MaxTimerIsr handler runs in all.  The counter starts next to its wrap.  *)
(***************************************************************************)
InitTimer == InitWith({}, { U(0), U32_MAX })

NextTimer ==
    \/ \E start_ok, enable_ok \in BOOLEAN :
          TimerInitCall(start_ok, enable_ok, MaxTimerStarts)
    \/ GetTicks
    \/ \E via \in { "irq", "force_tick" } : TimerIsrEnter(via, MaxTimerIsr)
    \/ TimerIsrStep

SpecTimer == InitTimer /\ [][NextTimer]_vars

(***************************************************************************)
(* System runs: everything that runs while the counter ticks.  The boot    *)
(* code calls the timer's init, then the driver inits and the handle       *)
(* operations in any order, then spawns the task of TickObjects; from then *)
(* on the mainline calls run_ready, reap_finished, get_ticks and           *)
(* ms_to_ticks in any order.  Once enabled the timer interrupt fires at any *)
(* point, MaxTickIsr times; the counter starts at 0 or next to its wrap.   *)
(***************************************************************************)
TickObjects ==
    { [name |-> "A", priority |-> Normal, stack_size |-> DEFAULT_STACK_SIZE,
       returns |-> { Continue }, oob |-> FALSE] }

InitTick == InitWith(TickObjects, { U(0), U32_MAX })

\* the cell the handle operations of a system run are called on
TickCells == { "LED_DRIVER" }

\* the boot code is running: the mainline is not interrupted and the task
\* has not been spawned
Booting == isr_pc = 0 /\ pool # {}

\* the main loop is running: the mainline is not interrupted and the task has
\* been spawned
Looping == isr_pc = 0 /\ pool = {}

NextTick ==
    \/ Booting /\ drv_op.op = "" /\ TimerInitCall(TRUE, TRUE, 1)
    \/ Looping /\ GetTicks
    \/ Looping /\ MsToTicks(BigMs)
    \/ TimerIsrEnter("irq", MaxTickIsr)
    \/ TimerIsrStep
    \/ \E task \in pool : Booting /\ Spawn(task, TRUE)
    \/ Looping /\ RunReadyBegin(0)
    \/ Looping /\ RunReadySkip
    \/ \E cmd \in PollReturns : Looping /\ RunReadyPoll(cmd, << >>)
    \/ Looping /\ ReapFinished
    \/ Booting /\ InitLed("main", MaxTickInst)
    \/ Booting /\ InitUart("main")
    \/ Booting /\ InitI2c0("main", TRUE, MaxTickInst)
    \/ Booting /\ OledTake("main")
    \/ Booting /\ OledCheck("main")
    \/ Booting /\ OledRestore("main")
    \/ Booting /\ OledConstruct("main", TRUE, MaxTickInst)
    \/ Booting /\ OledInstall("main")
    \/ \E cell \in TickCells : Booting /\ IsReady("main", cell)
    \/ \E cell \in TickCells : Booting /\ TryWith("main", cell)
    \/ \E cell \in TickCells : Booting /\ Take("main", cell)
    \/ \E cell \in TickCells : Booting /\ Replace("main", cell)

SpecTick == InitTick /\ [][NextTick]_vars

(***************************************************************************)
(* Stack runs: one TaskStack is allocated, one byte is written out of      *)
(* bounds onto one of its guard words, and the stack is dropped.           *)
(***************************************************************************)
StackOnly == UNCHANGED <<sched_vars, drv_vars, tmr_vars, heap>>

\* the sizes stacks are requested with
StackSizes == { 16, DEFAULT_STACK_SIZE }

\* every single-byte write onto a guard word: either guard, any of its
\* CANARY_BYTES bytes, any byte value
GuardWrites ==
    { [guard |-> g, off |-> o, byte |-> b] :
        g \in { "lower", "upper" }, o \in 0..(CANARY_BYTES - 1), b \in 0..255 }

\* TaskStack::new(size)
StackNew(size, alloc_ok) ==
    /\ StackOnly
    /\ tstack = << >>
    /\ tstack' = TaskStackNew(size, alloc_ok)
    /\ tstack_wr' = << >>
    /\ new_op' = NoNewOp

\* a store of one byte through a pointer that ran past the usable region
StackOobWrite(wr) ==
    /\ StackOnly
    /\ is_some(tstack)
    /\ tstack_wr = << >>
    /\ tstack' = << OobWrite(tstack[1], wr) >>
    /\ tstack_wr' = << wr >>
    /\ new_op' = NoNewOp

\* impl Drop for TaskStack
StackDrop ==
    /\ StackOnly
    /\ is_some(tstack)
    /\ tstack' = << >>
    /\ tstack_wr' = << >>
    /\ new_op' = NoNewOp

\* TaskStack::verify(&self): both sentinels are read and compared; nothing is
\* written.  Consecutive calls are counted up to MaxVerifyCalls.
StackVerify ==
    /\ StackOnly
    /\ is_some(tstack)
    /\ new_op' = [NoNewOp EXCEPT
                    !.op = "verify",
                    !.res = IF verify(tstack[1]) THEN "true" ELSE "false",
                    !.calls = IF new_op.calls < MaxVerifyCalls
                              THEN new_op.calls + 1 ELSE new_op.calls]
    /\ UNCHANGED <<tstack, tstack_wr>>

InitStack == InitWith({}, { U(0) })

NextStack ==
    \/ \E size \in StackSizes, alloc_ok \in BOOLEAN : StackNew(size, alloc_ok)
    \/ \E wr \in GuardWrites : StackOobWrite(wr)
    \/ StackDrop
    \/ StackVerify

SpecStack == InitStack /\ [][NextStack]_vars

(***************************************************************************)
(* Layout runs: TaskStack::new is called with sizes of any machine-word    *)
(* value: small ones, ones around isize::MAX and ones up to usize::MAX.    *)
(***************************************************************************)
\* the requested sizes: the 16 lowest and the 16 highest values of the low
\* half, in the lowest and the highest quarter-range of the high half
WordSizes ==
    { << hi, lo >> : hi \in { 0, HALF \div 2 - 1, HALF \div 2, HALF - 1 },
                     lo \in (0..(STACK_ALIGN - 1)) \cup ((HALF - STACK_ALIGN)..(HALF - 1)) }

\* TaskStack::new(size)
StackNewWord(size, checks, alloc_ok) ==
    /\ new_op' = TaskStackNewWord(size, checks, alloc_ok)
    /\ UNCHANGED <<sched_vars, drv_vars, tmr_vars, stk_vars, heap>>

InitLayout == InitWith({}, { U(0) })

NextLayout ==
    \E size \in WordSizes, checks \in BOOLEAN, alloc_ok \in BOOLEAN :
        StackNewWord(size, checks, alloc_ok)

SpecLayout == InitLayout /\ [][NextLayout]_vars

(***************************************************************************)
(* Properties                                                              *)
(***************************************************************************)
Slots == 1..Len(tasks)

InTable(name) == \E i \in Slots : tasks[i].task.name = name

\* the slot of the task object `name` (which is in the table)
SlotOf(name) == tasks[CHOOSE i \in Slots : tasks[i].task.name = name]

\* the step polls the task object `name`
PolledInStep(name) == polled' = Append(polled, name)

\* a run_ready cycle has run to its end and nothing was called since
CycleDone == pc = "idle" /\ last_op.op = "run_ready"

\* The slot of `name` is marked finished, or has been removed from the table
\* (reap_finished removes finished slots only; a task object handed to spawn
\* is never handed to it again).
C1_Done(name) ==
    \/ InTable(name) /\ SlotOf(name).finished
    \/ ~InTable(name) /\ name \notin { t.name : t \in pool }

\* C1: once a slot is marked Finished (by its poll returning Finished or by a
\* failed guard check) no later step polls that task, and it stays finished
\* (or removed) under every interleaving of ticks, spawns, run_ready and
\* reap_finished.
C1_FinishedIsTerminal ==
    [][\A name \in TaskNames :
          C1_Done(name) => (~PolledInStep(name) /\ C1_Done(name)')]_vars

\* C1 witness: in a later cycle, after the tick counter has advanced, the loop
\* has passed over a slot whose poll returned Finished, whose guards are intact
\* and whose wake tick is not in the future, without polling it.
C1_Witness ==
    /\ pc = "loop"
    /\ \E i \in Slots :
          /\ i < idx
          /\ tasks[i].finished
          /\ verify(tasks[i].stack)
          /\ ~Lt(now, tasks[i].next_run_tick)
          /\ last_poll[tasks[i].task.name].kind = "Finished"
          /\ now_count > last_poll[tasks[i].task.name].at
          /\ \A k \in 1..Len(polled) : polled[k] # tasks[i].task.name

\* the delay a sleep command asks for, in ticks
C2_Delay(lp) ==
    IF lp.kind = "SleepMs" THEN MaxU(ms_to_ticks(lp.arg), U(1)) ELSE MaxU(lp.arg, U(1))

\* C2: a task whose poll at tick t returned SleepMs(ms) or SleepTicks(n) is not
\* polled again before the tick counter has advanced by max(ms_to_ticks(ms),1)
\* resp. max(n,1) ticks from t, also when t plus the delay passes 2^32.
C2_SleepRespected ==
    [][\A name \in TaskNames :
          (PolledInStep(name) /\ last_poll[name].kind \in {"SleepMs", "SleepTicks"})
          => ~Lt(U(isr_count - last_poll[name].at), C2_Delay(last_poll[name]))]_vars

\* C3: a non-finished task with intact guards whose last poll returned Continue
\* is polled in the next run_ready cycle, whatever the tick counter is then:
\* when a cycle has ended, every such task is among the tasks it polled.
C3_ContinuePolledNextCycle ==
    CycleDone =>
        \A i \in Slots :
            (/\ ~tasks[i].finished
             /\ verify(tasks[i].stack)
             /\ last_poll[tasks[i].task.name].kind = "Continue")
            => \E k \in 1..Len(polled) : polled[k] = tasks[i].task.name

\* the step is a spawn call (only spawn takes a task object from the pool)
SpawnStep == pool' # pool

\* C5: with the allocation succeeding, a spawn issued while the table holds
\* fewer than MAX_TASKS slots succeeds, returns the next id and appends one
\* slot; a spawn issued while it holds MAX_TASKS slots returns NoCapacity and
\* leaves every slot as it was.  From the empty table the first MAX_TASKS
\* spawns therefore succeed.
C5_SpawnUpToCapacity ==
    [][SpawnStep =>
          IF Len(tasks) < MAX_TASKS
          THEN /\ last_op'.res = "Ok"
               /\ last_op'.id = next_id
               /\ Len(tasks') = Len(tasks) + 1
               /\ SubSeq(tasks', 1, Len(tasks)) = tasks
               /\ tasks'[Len(tasks')].id = next_id
          ELSE /\ last_op'.res = "NoCapacity"
               /\ tasks' = tasks]_vars

\* C5 witness: the first eight spawns from the empty table have succeeded (the
\* table holds the ids 1..8) and the ninth has just returned NoCapacity.
C5_Witness ==
    /\ last_op.op = "spawn"
    /\ last_op.res = "NoCapacity"
    /\ last_op.task = CapName[MAX_TASKS + 1]
    /\ Len(tasks) = MAX_TASKS
    /\ { tasks[i].id : i \in 1..Len(tasks) } = { U(n) : n \in 1..MAX_TASKS }

\* C4: when spawn fails, with NoCapacity or with OutOfMemory, the slot table
\* and the next-id counter are the same after the call as before.
C4_FailedSpawnChangesNothing ==
    [][(SpawnStep /\ last_op'.res \in {"NoCapacity", "OutOfMemory"})
          => (tasks' = tasks /\ next_id' = next_id)]_vars

\* C6: within one run_ready cycle, of two tasks polled in it the one of
\* strictly higher priority is polled first.
C6_HigherPriorityFirst ==
    \A i, j \in 1..Len(polled) :
        (i < j /\ InTable(polled[i]) /\ InTable(polled[j]))
        => SlotOf(polled[i]).priority >= SlotOf(polled[j]).priority

\* C6 witness: a cycle polled a task before a task of lower priority that was
\* spawned earlier (has the smaller id), so the order is the sort's doing.
C6_Witness ==
    \E i, j \in 1..Len(polled) :
        /\ i < j
        /\ InTable(polled[i]) /\ InTable(polled[j])
        /\ SlotOf(polled[i]).priority > SlotOf(polled[j]).priority
        /\ Lt(SlotOf(polled[j]).id, SlotOf(polled[i]).id)

\* C7: when the guard check that follows a poll finds the guard corrupted, the
\* slot is marked Finished in that same loop iteration, whatever command the
\* poll returned.
C7_TripAfterPollFinishes ==
    [][\A name \in TaskNames :
          PolledInStep(name)
          => (InTable(name) /\ (verify(SlotOf(name).stack) \/ SlotOf(name).finished))']_vars

\* C7 witness: a task polled in this cycle returned Continue, its guard check
\* after the poll failed (the fault was printed) and the slot is finished.
C7_Witness ==
    \E k \in 1..Len(polled) :
        /\ InTable(polled[k])
        /\ last_poll[polled[k]].kind = "Continue"
        /\ ~verify(SlotOf(polled[k]).stack)
        /\ SlotOf(polled[k]).finished
        /\ polled[k] \in tripped

\* C8: a guard failure stops the offending task only.  In the step that marks
\* a slot finished for a corrupted guard every other slot is unchanged and the
\* loop goes on to the next slot; and when a cycle in which a guard tripped has
\* ended, every other slot was polled in it unless it was finished, had a
\* corrupted guard itself or was not due.
C8_GuardFailureIsLocal ==
    [][/\ \A name \in TaskNames :
             (name \notin tripped /\ name \in tripped')
             => /\ Len(tasks') = Len(tasks)
                /\ \A j \in Slots :
                      tasks[j].task.name # name => tasks'[j] = tasks[j]
                /\ IF idx < Len(tasks)
                   THEN pc' = "loop" /\ idx' = idx + 1
                   ELSE pc' = "idle"
       /\ (pc = "loop" /\ pc' = "idle" /\ tripped' # {})
             => \A j \in 1..Len(tasks') :
                   \/ tasks'[j].task.name \in tripped'
                   \/ \E k \in 1..Len(polled') : polled'[k] = tasks'[j].task.name
                   \/ tasks'[j].finished
                   \/ ~verify(tasks'[j].stack)
                   \/ Lt(now', tasks'[j].next_run_tick)]_vars

\* C8 witness: a cycle has ended in which one task's guard tripped after its
\* poll and another task, not tripped, was polled after it.
C8_Witness ==
    /\ CycleDone
    /\ \E i, j \in 1..Len(polled) :
          /\ i < j
          /\ polled[i] \in tripped
          /\ polled[j] \notin tripped
          /\ InTable(polled[j]) /\ ~SlotOf(polled[j]).finished

\* C9: scenario.  A (High, always Continue) and B (Normal, always SleepMs(100))
\* are spawned at tick 0.  run_ready at tick 0 polls A then B; run_ready at
\* tick 50 polls only A; run_ready at a tick >= 100 polls both, A before B.
C9_Scenario ==
    CycleDone =>
        /\ cycles = 1 => (now = U(0) /\ polled = << "A", "B" >>)
        /\ cycles = 2 => (now = U(50) /\ polled = << "A" >>)
        /\ cycles = 3 => (~Lt(now, U(100)) /\ polled = << "A", "B" >>)

\* C9 witness: the third cycle, called after tick 100, has ended having polled
\* A then B, B having been spawned before A.
C9_Witness ==
    /\ CycleDone
    /\ cycles = 3
    /\ Lt(U(100), now)
    /\ polled = << "A", "B" >>
    /\ Lt(SlotOf("B").id, SlotOf("A").id)
    /\ SlotOf("B").next_run_tick = wrapping_add(now, U(100))

\* C10: ms_to_ticks(ms) = ms for every 32-bit ms at 1000 Hz: the tick count
\* computed for every SleepMs(ms) a poll returned equals ms.
C10_MsToTicksIsIdentity ==
    \A name \in TaskNames :
        last_poll[name].kind = "SleepMs" => last_poll[name].conv = last_poll[name].arg

(***************************************************************************)
(* Properties of the driver cells                                          *)
(***************************************************************************)
\* the step completes a driver operation
Completed == drv_op'.seq # drv_op.seq

\* the init functions
InitOps == { "init_led", "init_uart", "init_i2c0", "init_oled" }

\* the errors of DriverError
InitErrors == { "NotReady", "AlreadyInitialized", "InitFailed" }

\* what the I2C bus cell held when the init_oled call that this step
\* completes was made
BusAtCall(c) ==
    IF ctx[c].pc = "idle" THEN cells["I2C0_DRIVER"] ELSE ctx[c].entry[1]

\* C11: whenever init_oled returns an error (NotReady, AlreadyInitialized or
\* InitFailed), the I2C bus cell holds afterwards the bus instance it held
\* when the call was made.
C11_BusRestoredOnError ==
    [][(Completed /\ drv_op'.op = "init_oled" /\ drv_op'.res \in InitErrors)
          => cells'["I2C0_DRIVER"] = BusAtCall(drv_op'.caller)]_vars

\* C12: an init installs only into a cell that is empty at the install, so it
\* never overwrites an instance installed since its occupied check, and at
\* most one init of a cell succeeds while the cell stays occupied.
C12_InitNeverOverwrites ==
    [][(Completed /\ drv_op'.op \in InitOps /\ drv_op'.res = "Ok")
          => ~is_some(cells[drv_op'.cell])]_vars

\* C13: an init call on a cell that already holds an instance returns
\* AlreadyInitialized, leaves that instance in the cell unmodified and
\* constructs no instance.
C13_SecondInitAlreadyInitialized ==
    [][(Completed /\ drv_op'.op \in InitOps /\ ctx[drv_op'.caller].pc = "idle"
          /\ is_some(cells[drv_op'.cell]))
          => /\ drv_op'.res = "AlreadyInitialized"
             /\ cells'[drv_op'.cell] = cells[drv_op'.cell]
             /\ next_inst' = next_inst]_vars

\* the step completes the handle operation op
HandleStep(op) == Completed /\ drv_op'.op = op

\* no cell of cs holds an instance with the identity of inst
InNoCell(cs, inst) ==
    \A x \in Cells : is_some(cs[x]) => cs[x][1].id # inst.id

\* C14: take on an occupied cell returns the instance and leaves the cell
\* empty; take on an empty cell returns None and leaves it empty; the other
\* cells are untouched, and an instance returned to a caller is in no cell.
C14_TakeEmptiesCell ==
    [][HandleStep("take")
          => /\ drv_op'.ret = cells[drv_op'.cell]
             /\ cells' = [cells EXCEPT ![drv_op'.cell] = << >>]
             /\ ctx'[drv_op'.caller].held = Held(drv_op'.cell, cells[drv_op'.cell])
             /\ is_some(drv_op'.ret) => InNoCell(cells', drv_op'.ret[1])]_vars

\* C14 witness: a take has just returned the LED instance to a caller on whose
\* pin the LED task had acted; the cell is empty and the caller holds it.
C14_Witness ==
    /\ drv_op.op = "take"
    /\ drv_op.cell = "LED_DRIVER"
    /\ is_some(drv_op.ret)
    /\ drv_op.ret[1].st = 1
    /\ cells["LED_DRIVER"] = << >>
    /\ ctx[drv_op.caller].held = << [cell |-> "LED_DRIVER", inst |-> drv_op.ret[1]] >>

\* C15: after replace(v) the cell holds exactly v, whatever it held, and the
\* previous occupant (if any) is what the call returns; is_ready is then
\* true and a try_with through the handle runs its operation on v.
C15_ReplaceInstalls ==
    [][HandleStep("replace")
          => LET v == ctx[drv_op'.caller].held[1].inst
                 c == drv_op'.cell
             IN  /\ cells' = [cells EXCEPT ![c] = << v >>]
                 /\ drv_op'.ret = cells[c]
                 /\ is_ready(cells'[c])
                 /\ try_with(cells'[c]).ran = 1
                 /\ try_with(cells'[c]).cell = << LedOp(v) >>]_vars

\* C15 witness: a replace into an occupied cell has returned the previous
\* occupant, and the cell holds the other instance, which the caller had
\* taken from it before.
C15_Witness ==
    /\ drv_op.op = "replace"
    /\ drv_op.cell = "LED_DRIVER"
    /\ is_some(drv_op.ret)
    /\ is_some(cells["LED_DRIVER"])
    /\ cells["LED_DRIVER"][1].id < drv_op.ret[1].id
    /\ ctx[drv_op.caller].held = << [cell |-> "LED_DRIVER", inst |-> drv_op.ret[1]] >>

\* C16: try_with on an empty cell does not run the operation, returns None
\* and leaves the cell empty; on an occupied cell it runs the operation once
\* on the installed instance, returns its result and leaves that instance in
\* the cell.  No other cell changes.
C16_TryWithRunsOnceIfPresent ==
    [][HandleStep("try_with")
          => LET c == drv_op'.cell
             IN  /\ \A x \in Cells \ {c} : cells'[x] = cells[x]
                 /\ IF is_some(cells[c])
                    THEN /\ drv_op'.ran = 1
                         /\ drv_op'.ret = << LedOp(cells[c][1]).st >>
                         /\ cells'[c] = << LedOp(cells[c][1]) >>
                         /\ cells'[c][1].id = cells[c][1].id
                    ELSE /\ drv_op'.ran = 0
                         /\ drv_op'.ret = << >>
                         /\ cells'[c] = << >>]_vars

\* C16 witness: try_with from interrupt context has run its operation on the
\* LED instance installed by init_led and returned its result (the pin is
\* high); the instance is still in the cell.
C16_Witness ==
    /\ drv_op.op = "try_with"
    /\ drv_op.caller = "isr"
    /\ drv_op.cell = "LED_DRIVER"
    /\ drv_op.ran = 1
    /\ drv_op.ret = << 1 >>
    /\ cells["LED_DRIVER"] = << [id |-> 1, st |-> 1, bus |-> 0] >>

(***************************************************************************)
(* Properties of the tick source                                           *)
(***************************************************************************)
\* the step is a call of the timer's init
TimerInitStep == tmr_op'.seq # tmr_op.seq /\ tmr_op'.op = "init"

\* C17: init succeeds at most once.  Once an init has succeeded the handle
\* stays stored, and every later init call returns the already-initialized
\* error and leaves the hardware configuration (start, listen, bind, enable),
\* the stored handle and the tick counter as they were.
C17_TimerInitOnce ==
    [][/\ is_some(TIMER) => TIMER' = TIMER
       /\ (TimerInitStep /\ tmr_op'.res = "Ok") => ~is_some(TIMER)
       /\ (TimerInitStep /\ is_some(TIMER))
             => /\ tmr_op'.res = "AlreadyInitialized"
                /\ hw' = hw
                /\ TIMER' = TIMER
                /\ system_ticks' = system_ticks]_vars

\* C17 witness: after a successful init and a timer interrupt, a second init
\* call has just returned the already-initialized error; the hardware has
\* been configured once.
C17_Witness ==
    /\ tmr_op.op = "init"
    /\ tmr_op.res = "AlreadyInitialized"
    /\ is_some(TIMER)
    /\ hw.starts = 1 /\ hw.binds = 1 /\ hw.enables = 1
    /\ hw.acks >= 1
    /\ isr_count >= 1

\* the running handler takes a step / the step that counts / that acknowledges
HandlerStep == isr_pc # 0 /\ isr_pc' # isr_pc

CountStep == HandlerStep /\ isr_count' # isr_count

AckStep == HandlerStep /\ tmr_op'.op = "ack"

\* C18: in each run of the handler the counter is incremented by exactly one,
\* outside the critical section and before anything else; the
\* acknowledgment comes afterwards, inside the critical section; and the
\* handler returns with the critical section left.
C18_CountThenAck ==
    [][/\ CountStep => /\ ~in_cs
                       /\ system_ticks = tmr_op.ticks
                       /\ system_ticks' = wrapping_add(tmr_op.ticks, U(1))
                       /\ hw' = hw
       /\ AckStep => /\ in_cs
                     /\ system_ticks = wrapping_add(tmr_op.ticks, U(1))
                     /\ system_ticks' = system_ticks
                     /\ is_some(TIMER) => ~hw'.pending
       /\ (HandlerStep /\ isr_pc' = 0)
             => (~in_cs' /\ system_ticks' = wrapping_add(tmr_op.ticks, U(1)))]_vars

\* C18 witness: the handler, entered by the timer interrupt with the counter
\* at 2^32-1, has counted (the counter is 0) and has just acknowledged the
\* interrupt inside the critical section.
C18_Witness ==
    /\ isr_pc # 0
    /\ tmr_op.op = "ack"
    /\ tmr_op.res = "irq"
    /\ tmr_op.ticks = U32_MAX
    /\ system_ticks = U(0)
    /\ in_cs
    /\ hw.acks >= 1
    /\ ~hw.pending

\* C19: the tick counter has a single writer.  Only the step of the interrupt
\* handler that counts changes it, and that step adds one modulo 2^32;
\* every other step (get_ticks, ms_to_ticks, spawn, run_ready,
\* reap_finished, the timer's init, the driver operations) leaves it as it
\* is.
C19_SingleWriter ==
    [][/\ system_ticks' # system_ticks => CountStep
       /\ CountStep => system_ticks' = wrapping_add(system_ticks, U(1))]_vars

\* C19 witness: the handler has taken the counter from 2^32-1 to 0 during a
\* run_ready cycle that had read 2^32-1, after driver operations at boot,
\* and get_ticks has then returned 0.
C19_Witness ==
    /\ isr_count = 1
    /\ system_ticks = U(0)
    /\ now = U32_MAX
    /\ Len(polled) = 1
    /\ drv_op.op = "replace"
    /\ is_some(cells["LED_DRIVER"])
    /\ is_some(cells["UART0_DRIVER"])
    /\ tmr_op.op = "get_ticks"
    /\ tmr_op.ticks = U(0)


\* C20: a TaskStack verifies right after its allocation, and does not verify
\* after one out-of-bounds byte write onto its lower or its upper guard word,
\* whatever byte is written.
C20_VerifyDetectsAnyWrite ==
    is_some(tstack) =>
        /\ tstack_wr = << >> => verify(tstack[1])
        /\ tstack_wr # << >> => ~verify(tstack[1])

(***************************************************************************)
(* Properties of the stacks' heap blocks and of the slot table             *)
(***************************************************************************)
\* C21: the live stack blocks are exactly the stacks of the slots in the
\* table, finished slots included; a block is released only by the removal of
\* its slot (reap_finished or the drop of the scheduler), never while its slot
\* is in the table and never when it is not live (a second time).
C21_StacksLiveWithSlots ==
    /\ heap.live = { tasks[i].id : i \in Slots }
    /\ heap.freed \cap { tasks[i].id : i \in Slots } = {}
    /\ heap.stray = {}

\* C21 witness: reap_finished has released the stacks of removed slots, and a
\* slot that finished since is still in the table with its stack live.
C21_Witness ==
    /\ heap.freed # {}
    /\ \E i \in Slots : tasks[i].finished /\ tasks[i].id \in heap.live
    /\ \E i \in Slots : ~tasks[i].finished

\* C22: for every requested size of machine-word width TaskStack::new either
\* returns a block of exactly size + 2 * 4 bytes (the sum not wrapped) with all
\* its writes inside the block, or returns failure; it never panics.
C22_NewExactOrFails ==
    new_op.op = "new" =>
        \/ new_op.res = "None"
        \/ /\ new_op.res = "Some"
           /\ new_op.block = wrapping_add(new_op.size, U(CANARY_BYTES * 2))
           /\ ~Lt(new_op.block, new_op.size)
           /\ ~new_op.oob

\* C23: after any sequence of spawn, run_ready and reap_finished calls the
\* table holds at most 8 slots.
C23_AtMostEightSlots == Len(tasks) <= 8

\* C23 witness: more spawn calls were made than the table has slots (the
\* ninth task object has been handed to spawn), a cycle has run since, and the
\* table holds 8 slots.
C23_Witness ==
    /\ Len(tasks) = 8
    /\ Cardinality(pool) < CapExtra
    /\ CycleDone
    /\ \E i \in Slots : tasks[i].finished

(***************************************************************************)
(* Properties of a run_ready cycle                                         *)
(***************************************************************************)
\* the step is one iteration of run_ready's for loop, for the slot at idx
LoopStep == pc = "loop" /\ (idx' # idx \/ pc' # pc)

\* C24: when the loop comes to a non-finished slot whose guard is corrupted,
\* the slot is marked Finished and reported, and is not polled, whether its
\* wake tick has come or is still in the future.
C24_CorruptedSlotNotPolled ==
    [][(LoopStep /\ ~tasks[idx].finished /\ ~verify(tasks[idx].stack))
          => /\ tasks' = [tasks EXCEPT ![idx].finished = TRUE]
             /\ tasks[idx].task.name \in tripped'
             /\ polled' = polled]_vars

\* C24 witness: a cycle has marked finished, without polling it, a slot whose
\* guard was corrupted while it slept and whose wake tick is still in the
\* future.
C24_Witness ==
    \E i \in Slots :
        /\ tasks[i].finished
        /\ ~verify(tasks[i].stack)
        /\ Lt(now, tasks[i].next_run_tick)
        /\ tasks[i].task.name \in tripped
        /\ last_poll[tasks[i].task.name].kind \in { "SleepTicks", "SleepMs" }
        /\ \A k \in 1..Len(polled) : polled[k] # tasks[i].task.name

\* the names of the task objects in the table, in table order
TableNames(s) == [k \in 1..Len(s) |-> s[k].task.name]

\* C25: in a cycle the loop visits every slot once, in table order; the
\* iteration for a slot polls it, once, exactly when the slot is non-finished,
\* has intact guards and has wake tick <= now, whatever the other slots'
\* priorities and whatever their polls returned; nothing else polls.
C25_ReadySlotsPolledOnce ==
    [][/\ LoopStep =>
             /\ polled' =
                   IF /\ ~tasks[idx].finished
                      /\ verify(tasks[idx].stack)
                      /\ ~Lt(now, tasks[idx].next_run_tick)
                   THEN Append(polled, tasks[idx].task.name)
                   ELSE polled
             /\ TableNames(tasks') = TableNames(tasks)
             /\ now' = now
             /\ IF idx < Len(tasks) THEN pc' = "loop" /\ idx' = idx + 1 ELSE pc' = "idle"
       /\ ~LoopStep => (polled' = polled \/ (polled' = << >> /\ pc = "idle"))
       /\ (pc = "idle" /\ pc' = "loop") => (idx' = 1 /\ polled' = << >>)]_vars

\* C25 witness: a cycle has ended in which a task of higher priority returned
\* Continue and a ready task of lower priority was polled after it, each once.
C25_Witness ==
    /\ CycleDone
    /\ Len(polled) = 2
    /\ polled[1] # polled[2]
    /\ InTable(polled[1]) /\ InTable(polled[2])
    /\ SlotOf(polled[1]).priority > SlotOf(polled[2]).priority
    /\ last_poll[polled[1]].kind = "Continue"
    /\ last_poll[polled[1]].at = now_count
    /\ now_count > 0

\* the step polls the slot at idx
PollStep == LoopStep /\ polled' # polled

\* what the poll of this step returned
Returned == last_poll'[tasks[idx].task.name]

\* C26: after a poll at tick now the slot's wake tick is now for Continue,
\* now + max(n, 1) mod 2^32 for SleepTicks(n), now + max(ms_to_ticks(ms), 1)
\* mod 2^32 for SleepMs(ms), and what it was for Finished; SleepTicks(0) and
\* SleepMs(0) give now + 1.
C26_WakeTickAfterPoll ==
    [][PollStep =>
          /\ Returned.kind = "Continue" => tasks'[idx].next_run_tick = now
          /\ Returned.kind = "SleepTicks" =>
                tasks'[idx].next_run_tick =
                    wrapping_add(now, IF Lt(Returned.arg, U(1)) THEN U(1) ELSE Returned.arg)
          /\ Returned.kind = "SleepMs" =>
                tasks'[idx].next_run_tick =
                    wrapping_add(now, IF Lt(ms_to_ticks(Returned.arg), U(1))
                                      THEN U(1) ELSE ms_to_ticks(Returned.arg))
          /\ Returned.kind = "Finished" =>
                tasks'[idx].next_run_tick = tasks[idx].next_run_tick
          /\ (Returned.kind \in { "SleepTicks", "SleepMs" } /\ Returned.arg = U(0))
                => tasks'[idx].next_run_tick = wrapping_add(now, U(1))]_vars

\* C26 witness: in a cycle run at tick 2^32 - 1 one task returned SleepMs(0)
\* and the other SleepTicks(0); both have wake tick 0.
C26_Witness ==
    /\ CycleDone
    /\ now = U32_MAX
    /\ now_count = 0
    /\ \E x, y \in { t.name : t \in SleepObjects } :
          /\ last_poll[x].kind = "SleepMs" /\ last_poll[x].arg = U(0)
          /\ last_poll[y].kind = "SleepTicks" /\ last_poll[y].arg = U(0)
          /\ InTable(x) /\ InTable(y)
          /\ SlotOf(x).next_run_tick = U(0)
          /\ SlotOf(y).next_run_tick = U(0)

\* C27: a successful spawn appends one non-finished slot whose wake tick is
\* the tick counter's value at the spawn and whose stack has the size the task
\* declares, and leaves the existing slots as they were; and the first cycle
\* that follows the spawn polls the new task, whatever the tick then is: when
\* a cycle has ended, no non-finished slot is left that was never polled.
C27_SpawnedSlotPolledNextCycle ==
    [][/\ (SpawnStep /\ last_op'.res = "Ok") =>
             /\ Len(tasks') = Len(tasks) + 1
             /\ SubSeq(tasks', 1, Len(tasks)) = tasks
             /\ ~tasks'[Len(tasks')].finished
             /\ tasks'[Len(tasks')].next_run_tick = system_ticks
             /\ tasks'[Len(tasks')].task.name = last_op'.task
             /\ tasks'[Len(tasks')].stack.size = tasks'[Len(tasks')].task.stack_size
             /\ verify(tasks'[Len(tasks')].stack)
       /\ CycleDone' =>
             \A i \in 1..Len(tasks') :
                 (~tasks'[i].finished /\ last_poll'[tasks'[i].task.name].kind = "None")
                 => \E k \in 1..Len(polled') : polled'[k] = tasks'[i].task.name]_vars

\* C28: within a cycle, of two tasks of equal priority polled in it the one
\* whose wake tick at the start of the cycle is smaller is polled first: the
\* slot a loop iteration polls has a wake tick no larger than that of any
\* slot of its priority further down the table, and the slots further down
\* keep their wake ticks and their places until the loop comes to them.
C28_EarlierWakeFirst ==
    [][/\ PollStep =>
             \A j \in Slots :
                 (j > idx /\ tasks[j].priority = tasks[idx].priority)
                 => ~Lt(tasks[j].next_run_tick, tasks[idx].next_run_tick)
       /\ LoopStep =>
             \A j \in Slots :
                 j > idx => /\ tasks'[j].next_run_tick = tasks[j].next_run_tick
                            /\ tasks'[j].priority = tasks[j].priority
                            /\ tasks'[j].id = tasks[j].id]_vars

\* C28 witness: a cycle polled two tasks of equal priority, both returning
\* Finished (so their wake ticks are those of the start of the cycle); the one
\* polled first has the smaller wake tick and was spawned later.
C28_Witness ==
    /\ CycleDone
    /\ Len(polled) = 2
    /\ InTable(polled[1]) /\ InTable(polled[2])
    /\ last_poll[polled[1]].kind = "Finished"
    /\ last_poll[polled[2]].kind = "Finished"
    /\ SlotOf(polled[1]).priority = SlotOf(polled[2]).priority
    /\ Lt(SlotOf(polled[1]).next_run_tick, SlotOf(polled[2]).next_run_tick)
    /\ Lt(SlotOf(polled[2]).id, SlotOf(polled[1]).id)

\* C29: run_ready reads the tick counter once, before the loop; whatever
\* interrupts fire during the cycle, every loop iteration decides on, and
\* every poll receives, that one value: `now` is the counter's value at the
\* start of the cycle and stays so through the loop, a slot is polled iff it
\* is ready at that value, the context of each poll carries it and each new
\* wake tick is computed from it.
C29_NowReadOnce ==
    [][/\ (pc = "idle" /\ pc' = "loop") => now' = system_ticks
       /\ pc = "loop" => now' = now
       /\ LoopStep =>
             (PollStep <=> /\ ~tasks[idx].finished
                           /\ verify(tasks[idx].stack)
                           /\ ~Lt(now, tasks[idx].next_run_tick))
       /\ PollStep =>
             /\ Returned.ticks = now
             /\ Returned.kind = "Continue" => tasks'[idx].next_run_tick = now
             /\ Returned.kind = "SleepTicks" =>
                   tasks'[idx].next_run_tick = wrapping_add(now, MaxU(Returned.arg, U(1)))
             /\ Returned.kind = "SleepMs" =>
                   tasks'[idx].next_run_tick =
                       wrapping_add(now, MaxU(ms_to_ticks(Returned.arg), U(1)))]_vars

\* C29 witness: the loop is at its second slot; an interrupt has fired since
\* the cycle read the counter, so the counter is past `now`; the first slot was
\* polled and the second, which sleeps until the tick the counter shows now,
\* waits for its turn.
C29_Witness ==
    /\ pc = "loop"
    /\ idx = 2
    /\ isr_count > now_count
    /\ system_ticks = wrapping_add(now, U(1))
    /\ polled = << tasks[1].task.name >>
    /\ last_poll[tasks[1].task.name].ticks = now
    /\ ~tasks[2].finished
    /\ tasks[2].next_run_tick = system_ticks
    /\ Lt(now, tasks[2].next_run_tick)

\* the step is a call of reap_finished
ReapStep == pc = "idle" /\ last_op'.op = "reap" /\ system_ticks' = system_ticks

\* the indices of the non-finished slots of the table
Unfinished == { i \in Slots : ~tasks[i].finished }

\* C30: reap_finished removes exactly the finished slots: afterwards no
\* finished slot is in the table, the non-finished slots are all there,
\* unchanged (id, priority, wake tick, stack) and in their order, and the
\* slot count has gone down by the number of finished slots.
C30_ReapRemovesFinished ==
    [][ReapStep =>
          /\ \A k \in 1..Len(tasks') : ~tasks'[k].finished
          /\ Len(tasks') = Len(tasks) - Cardinality(Slots \ Unfinished)
          /\ \A i \in Unfinished :
                tasks'[Cardinality({ j \in Unfinished : j <= i })] = tasks[i]]_vars

\* C30 witness: reap_finished has just removed the four finished slots of a
\* full table and released their stacks; four non-finished slots remain.
C30_Witness ==
    /\ last_op.op = "reap"
    /\ Len(tasks) = 4
    /\ Cardinality(heap.freed) = 4
    /\ Cardinality(heap.live) = 4
    /\ \A i \in Slots : ~tasks[i].finished /\ last_poll[tasks[i].task.name].kind = "Continue"

\* the step is the start of a run_ready cycle (tick read and sort)
BeginStep == pc = "idle" /\ last_op'.op = "run_ready" /\ system_ticks' = system_ticks

\* the slots of the table s, each by its id, task object, priority and stack
SlotSet(s) ==
    { [id |-> s[k].id, task |-> s[k].task.name, priority |-> s[k].priority,
       stack_size |-> s[k].stack.size] : k \in 1..Len(s) }

\* C31: run_ready adds and removes no slot: through every step of a cycle
\* (the sort and every loop iteration) the slots of the table, by id, task,
\* priority and stack, are the same, as are their number, the live stack
\* blocks and the next-id counter; a slot that is finished stays in the table.
C31_CycleKeepsSlots ==
    [][(BeginStep \/ pc = "loop") =>
          /\ SlotSet(tasks') = SlotSet(tasks)
          /\ Len(tasks') = Len(tasks)
          /\ heap' = heap
          /\ next_id' = next_id
          /\ \A k \in Slots : tasks[k].finished =>
                \E j \in 1..Len(tasks') : tasks'[j].id = tasks[k].id /\ tasks'[j].finished]_vars

\* C31 witness: a cycle has ended that reordered the table (the slot spawned
\* later is first), moved a wake tick and finished a task; both slots are in
\* the table with their stacks live.
C31_Witness ==
    /\ CycleDone
    /\ Len(tasks) = 2
    /\ Lt(tasks[2].id, tasks[1].id)
    /\ tasks[1].finished /\ last_poll[tasks[1].task.name].kind = "Finished"
    /\ last_poll[tasks[1].task.name].at = now_count
    /\ ~tasks[2].finished /\ Lt(now, tasks[2].next_run_tick)
    /\ heap.live = { tasks[1].id, tasks[2].id }
    /\ heap.freed = {}

\* the step is a call of verify on the stack under test
VerifyStep == new_op'.op = "verify" /\ new_op'.calls # new_op.calls

\* C32: verify returns true iff both sentinels hold 0xDEADBEEF, the pattern
\* written at allocation; it changes neither the sentinels nor the usable
\* region nor any scheduler state; and a call that follows another with no
\* write in between returns what that one returned.
C32_VerifyIsPure ==
    [][VerifyStep =>
          /\ new_op'.res = "true" <=>
                (tstack[1].lower = << 57005, 48879 >> /\ tstack[1].upper = << 57005, 48879 >>)
          /\ new_op'.res \in { "true", "false" }
          /\ UNCHANGED <<tstack, tstack_wr, sched_vars, heap>>
          /\ new_op.op = "verify" => new_op'.res = new_op.res]_vars

\* C32 witness: verify was called twice in a row on a stack whose upper
\* sentinel was overwritten (the lower one is intact) and returned false.
C32_Witness ==
    /\ new_op.op = "verify"
    /\ new_op.calls = 2
    /\ new_op.res = "false"
    /\ is_some(tstack)
    /\ tstack[1].lower = CANARY
    /\ tstack[1].upper # CANARY
    /\ tstack[1].fill = 0

\* the step is a Scheduler drop
DropStep == pc = "idle" /\ pc' = "dropped"

C34_IdsDistinctAndDense ==
    /\ \A i, j \in Slots : i # j => tasks[i].id # tasks[j].id
    /\ (last_op.op = "spawn" /\ last_op.res = "Ok") =>
          last_op.id = U(Cardinality(heap.live \cup heap.freed))

\* the task object `name` holds a non-finished slot, has been polled before,
\* and has not been polled in the current cycle
Awaiting(name) ==
    /\ InTable(name)
    /\ ~SlotOf(name).finished
    /\ verify(SlotOf(name).stack)
    /\ last_poll[name].kind # ""
    /\ \A k \in 1..Len(polled) : polled[k] # name

\* the task object `name` is polled in the current cycle, or its slot is
\* finished or gone
Served(name) ==
    \/ \E k \in 1..Len(polled) : polled[k] = name
    \/ ~InTable(name)
    \/ SlotOf(name).finished

\* C35: with the timer interrupt firing for ever and run_ready called for
\* ever, a non-finished task with intact guards that has been polled is
\* eventually polled again, at whatever tick it was polled; stated for the
\* command Continue, one of the commands the claim is about.
C35_NoStarvation ==
    \A name \in { t.name : t \in SleepObjects } :
        (Awaiting(name) /\ last_poll[name].kind = "Continue") ~> Served(name)

\* C36: init arms the interrupt and stores the handle in one critical
\* section: the interrupt is enabled only with the handle stored, a
\* successful init leaves both done, and a failed one neither.  So a handler
\* entered by the timer interrupt finds the handle at its acknowledgment
\* step and clears the pending interrupt; a handler that finds no handle was
\* entered by force_tick, has counted its tick all the same, leaves the
\* hardware alone and goes on to its end.
C36_ArmedWithHandle ==
    [][/\ hw.enabled => is_some(TIMER)
       /\ TimerInitStep =>
             /\ ~in_cs /\ ~in_cs'
             /\ tmr_op'.res = "Ok" => (hw'.enabled /\ is_some(TIMER'))
             /\ tmr_op'.res \in { "StartFailed", "EnableFailed" }
                   => (~hw'.enabled /\ ~is_some(TIMER'))
       /\ (AckStep /\ tmr_op.res = "irq") =>
             /\ is_some(TIMER)
             /\ hw'.acks = hw.acks + 1
             /\ ~hw'.pending
       /\ (AckStep /\ ~is_some(TIMER)) =>
             /\ tmr_op.res = "force_tick"
             /\ system_ticks = wrapping_add(tmr_op.ticks, U(1))
             /\ hw' = hw
             /\ isr_pc' # 0]_vars

\* C36 witness: an init that failed was followed by a force_tick and by an
\* init that succeeded; the handler, entered by the timer interrupt, has just
\* acknowledged it.  Of the two handler runs one found no handle and skipped
\* the acknowledgment, and both counted.
C36_Witness ==
    /\ tmr_op.op = "ack"
    /\ tmr_op.res = "irq"
    /\ is_some(TIMER)
    /\ hw.starts = 2
    /\ hw.enables = 1
    /\ hw.acks = 1
    /\ isr_count = 2

\* the priority the task object `name` reported when it was handed to spawn
SpawnPriority(name) == (CHOOSE t \in PrioObjects : t.name = name).priority

\* C37: a slot is ordered by the priority its task reported at spawn time,
\* whatever the task answers later: the slot's priority stays the spawn-time
\* value, and of two tasks of different spawn-time priority polled in one
\* cycle the one of higher spawn-time priority is polled first, in every
\* cycle.
C37_SpawnPriorityOrders ==
    /\ \A i \in Slots : tasks[i].priority = SpawnPriority(tasks[i].task.name)
    /\ \A i, j \in 1..Len(polled) :
          (i < j /\ SpawnPriority(polled[i]) # SpawnPriority(polled[j]))
          => SpawnPriority(polled[i]) > SpawnPriority(polled[j])

\* C37 witness: after their spawn A (spawned High) has come to answer Low and
\* B (spawned Low, and first) High; the cycle that has just ended sorted the
\* table and polled A before B all the same.
C37_Witness ==
    /\ CycleDone
    /\ polled = << "A", "B" >>
    /\ Lt(SlotOf("B").id, SlotOf("A").id)
    /\ SlotOf("A").task.priority = Low
    /\ SlotOf("B").task.priority = High
    /\ last_poll["A"].kind = "Continue" /\ last_poll["B"].kind = "Continue"
====
